---- MODULE Spec2Model ----
(***************************************************************************)
(* Checkers rules engine (saidnader1987/checkers): the Game class with its *)
(* two variants BaseGame and BonusGame, the Board/Tile/Piece model, the    *)
(* click and restart handlers and the view store they update.              *)
(*                                                                         *)
(* A tile is the pair <<row, column>>.  A piece is a record [owner, type]; *)
(* the TypeScript value `undefined` is modelled by NoPiece, NoTile,        *)
(* NoPlayer and NoInstruction according to the type it stands in for.      *)
(***************************************************************************)
EXTENDS Integers, Sequences, FiniteSets, TLC

VARIABLES
    variant,      \* which subclass of Game was instantiated: "base" | "bonus"
    gameState,    \* Game.gameState: board, status, winner, move, activePlayer
    instruction,  \* what the last playGame / restartGame call returned
    exit,         \* the return statement the last handler call left through
    uiState,      \* the view store: board labels, turn, winner
    clicks        \* number of accepted clicks since the starting position

vars == <<variant, gameState, instruction, exit, uiState, clicks>>

\* ------------------------------------------------------------------ bounds

\* Accepted clicks explored from each starting position.
MaxClicks == 4

\* ------------------------------------------------------------------- types

Player == {"blue", "red"}
NoPlayer == "undefined"
NoPiece == [owner |-> "none", type |-> "none"]
NoTile == <<>>
NoInstruction == [tileInstructions |-> <<>>, playing |-> NoPlayer, winner |-> NoPlayer]

Piece(owner, type) == [owner |-> owner, type |-> type]

\* ------------------------------------------------------------------- board

\* Array.from({ length }, callback) as a sequence: callback(0..length-1).
RECURSIVE ArrayFrom(_, _, _)
ArrayFrom(length, callback(_), index) ==
    IF index >= length THEN <<>>
    ELSE <<callback(index)>> \o ArrayFrom(length, callback, index + 1)

\* Board.tiles: 64 tiles, index = row * 8 + column, in array order.
newTile(index) == <<index \div 8, index % 8>>

Tiles == ArrayFrom(64, newTile, 0)

TileSet == {Tiles[i] : i \in 1..64}

getRow(tile) == tile[1]

getColumn(tile) == tile[2]

\* The pieces of new Board() with the blue queen looked for at index 1.
newTilePieceQueenAtOne(index) ==
    LET column == index % 8
        row == index \div 8
    IN  IF (row + column) % 2 = 0
        THEN IF index < 24
             THEN (IF index = 1 THEN Piece("blue", "queen") ELSE Piece("blue", "pawn"))
             ELSE IF index > 40
                  THEN (IF index = 63 THEN Piece("red", "queen") ELSE Piece("red", "pawn"))
                  ELSE NoPiece
        ELSE NoPiece

\* The callback of Array.from in new Board(): the piece of the tile at index.
newTilePiece(index) ==
    LET column == index % 8
        row == index \div 8
    IN  IF (row + column) % 2 = 0
        THEN IF index < 24
             THEN (IF index = 0 THEN Piece("blue", "queen") ELSE Piece("blue", "pawn"))
             ELSE IF index > 40
                  THEN (IF index = 63 THEN Piece("red", "queen") ELSE Piece("red", "pawn"))
                  ELSE NoPiece
        ELSE NoPiece

\* new Board(): the pieces of the 64 tiles, in array order.
Board == ArrayFrom(64, newTilePiece, 0)

\* Tile.getPiece of a tile of the board.
getPiece(board, tile) == board[getRow(tile) * 8 + getColumn(tile) + 1]

\* Board.getTile: the tile at (row, column), NoTile when there is none.
getTile(row, column) ==
    IF <<row, column>> \in TileSet THEN <<row, column>> ELSE NoTile

\* Tile.setPiece on one tile of a board.
setPiece(board, tile, piece) ==
    [board EXCEPT ![getRow(tile) * 8 + getColumn(tile) + 1] = piece]

EmptyMove ==
    [from |-> NoTile, to |-> NoTile, possiblePaths |-> <<>>, validDestinations |-> <<>>]

\* The initializer of Game.gameState (and the value restartGame assigns).
NewGameState ==
    [status |-> "active",
     board |-> Board,
     winner |-> NoPlayer,
     move |-> EmptyMove,
     activePlayer |-> "blue"]

\* ---------------------------------------------------------- sequence tools

\* Array.prototype.includes
Includes(seq, x) == \E i \in 1..Len(seq) : seq[i] = x

\* Array.prototype.at(-1)
Last(seq) == seq[Len(seq)]

\* Array.prototype.filter over the board's tiles, by owner.
TilesOwnedBy(board, player) ==
    SelectSeq(Tiles, LAMBDA tile : getPiece(board, tile).owner = player)

\* ------------------------------------------------------------ tile queries

isTileOcuppied(board, tile) == getPiece(board, tile) # NoPiece

tileBelongsToPlayer(board, tile, player) == getPiece(board, tile).owner = player

isQueen(piece) == piece.type = "queen"

\* Game.getQueen: the first tile in array order holding the player's queen.
getQueen(board, player) ==
    LET found == SelectSeq(Tiles,
                    LAMBDA tile : getPiece(board, tile).owner = player /\ getPiece(board, tile).type = "queen")
    IN  IF Len(found) = 0 THEN NoTile ELSE found[1]

\* playerHasQueen with the comparison inverted.
playerHasQueenInverted(board, player) == getQueen(board, player) = NoTile

playerHasQueen(board, player) == getQueen(board, player) # NoTile

\* Array.prototype.reduce of getIdlePieceTiles: the minimum (blue) or the
\* maximum (red) row over the tiles, starting from acc.
RECURSIVE reduceRow(_, _, _, _)
reduceRow(tiles, player, acc, i) ==
    IF i > Len(tiles) THEN acc
    ELSE LET row == getRow(tiles[i])
             next == IF player = "blue"
                     THEN (IF row < acc THEN row ELSE acc)
                     ELSE (IF row > acc THEN row ELSE acc)
         IN  reduceRow(tiles, player, next, i + 1)

\* getIdlePieceTiles whose two reductions both start from 0.
getIdlePieceTilesFromZero(board, player) ==
    LET tiles == TilesOwnedBy(board, player)
        furthestRow == reduceRow(tiles, player, 0, 1)
    IN  SelectSeq(tiles, LAMBDA tile : getRow(tile) = furthestRow)

getIdlePieceTiles(board, player) ==
    LET tiles == TilesOwnedBy(board, player)
        furthestRow == IF player = "blue"
                       THEN reduceRow(tiles, player, 7, 1)
                       ELSE reduceRow(tiles, player, 0, 1)
    IN  SelectSeq(tiles, LAMBDA tile : getRow(tile) = furthestRow)

\* isValidQueen accepting any tile of the player.
isValidQueenAnyOwn(board, tile, player) == tileBelongsToPlayer(board, tile, player)

isValidQueen(board, tile, player) == Includes(getIdlePieceTiles(board, player), tile)

setNewQueen(board, tile, player) == setPiece(board, tile, Piece(player, "queen"))

\* hasPlayerWon with the two winning rows exchanged.
hasPlayerWonOwnRow(board, player) ==
    LET winningRow == IF player = "blue" THEN 0 ELSE 7
        queen == getQueen(board, player)
    IN  queen # NoTile /\ getRow(queen) = winningRow

hasPlayerWon(board, player) ==
    LET winningRow == IF player = "blue" THEN 7 ELSE 0
        queen == getQueen(board, player)
    IN  queen # NoTile /\ getRow(queen) = winningRow

\* setWinner that leaves the status as it is.
setWinnerKeepsStatus(g, player) == [g EXCEPT !.winner = player]

\* Game.setWinner: the winner and the status "inactive".
setWinner(g, player) == [g EXCEPT !.winner = player, !.status = "inactive"]

\* isGameWon reading the status with a value it never takes.
isGameWonByStatus(g) == g.status = "finished"

isGameWon(g) == g.winner # NoPlayer

\* rivalHasPieces that finds a rival piece on every board.
rivalHasPiecesAlways(board, player) == TRUE

\* rivalHasPieces looking for the player's own pieces instead of the rival's.
rivalHasPiecesOwn(board, player) ==
    \E i \in 1..64 : getPiece(board, Tiles[i]).owner = player

rivalHasPieces(board, player) ==
    LET rival == IF player = "blue" THEN "red" ELSE "blue"
    IN  \E i \in 1..64 : getPiece(board, Tiles[i]).owner = rival

switchPlayer(g) ==
    [g EXCEPT !.activePlayer = IF g.activePlayer = "blue" THEN "red" ELSE "blue"]

\* getTileOwnerString that ignores the type of the piece.
getTileOwnerStringPawnOnly(board, tile) ==
    LET piece == getPiece(board, tile)
    IN  IF piece # NoPiece
        THEN (IF piece.owner = "blue" THEN "blue pawn" ELSE "red pawn")
        ELSE "none"

\* Game.getTileOwnerString: the label the view shows for a tile.
getTileOwnerString(board, tile) ==
    LET piece == getPiece(board, tile)
    IN  IF piece # NoPiece
        THEN (IF piece.owner = "blue"
              THEN (IF piece.type = "queen" THEN "blue queen" ELSE "blue pawn")
              ELSE (IF piece.type = "queen" THEN "red queen" ELSE "red pawn"))
        ELSE "none"

\* capture removing only the first captured piece.
captureFirst(board, captures) ==
    IF Len(captures) = 0 THEN board
    ELSE setPiece(board, captures[1], NoPiece)

\* Game.capture: every captured tile loses its piece.
RECURSIVE capture(_, _)
capture(board, captures) ==
    IF Len(captures) = 0 THEN board
    ELSE capture(setPiece(board, captures[1], NoPiece), Tail(captures))

\* ------------------------------------------------------------- path finder

\* The default value of getAdjacentLandings' captureXDirection and
\* captureYDirection parameters (undefined: no filtering).
NoDirection == 0

\* getDirections giving a pawn the four directions of a queen.
getDirectionsOfQueen(piece) == << <<1, 1>>, <<1, -1>>, <<-1, 1>>, <<-1, -1>> >>

\* Game.getDirections: [delta column, delta row] movements of a piece.
getDirections(piece) ==
    IF isQueen(piece)
    THEN << <<1, 1>>, <<1, -1>>, <<-1, 1>>, <<-1, -1>> >>
    ELSE IF piece.owner = "blue"
         THEN << <<-1, 1>>, <<1, 1>> >>
         ELSE << <<-1, -1>>, <<1, -1>> >>

RECURSIVE landingsForEach(_, _, _, _, _)

\* The forEach of getAdjacentLandings moving along the column only.
landingsForEachSameColumn(board, startingTile, tile, directions, i) ==
    IF i > Len(directions) THEN <<>>
    ELSE LET direction == directions[i]
             destination == getTile(getRow(tile) + direction[2], getColumn(tile))
             empty == IF destination # NoTile /\ ~isTileOcuppied(board, destination)
                      THEN <<destination>> ELSE <<>>
             start == IF destination = startingTile THEN <<destination>> ELSE <<>>
         IN  empty \o start \o landingsForEach(board, startingTile, tile, directions, i + 1)

\* The forEach of getAdjacentLandings over the (filtered) directions.
landingsForEach(board, startingTile, tile, directions, i) ==
    IF i > Len(directions) THEN <<>>
    ELSE LET direction == directions[i]
             destination == getTile(getRow(tile) + direction[2],
                                    getColumn(tile) + direction[1])
             empty == IF destination # NoTile /\ ~isTileOcuppied(board, destination)
                      THEN <<destination>> ELSE <<>>
             start == IF destination = startingTile THEN <<destination>> ELSE <<>>
         IN  empty \o start \o landingsForEach(board, startingTile, tile, directions, i + 1)

\* getAdjacentLandings filtering the directions by the column delta only.
getAdjacentLandingsByColumn(board, startingTile, tile, piece, captureXDirection, captureYDirection) ==
    LET all == getDirections(piece)
        byX == IF captureXDirection # NoDirection
               THEN SelectSeq(all, LAMBDA direction : direction[1] = captureXDirection)
               ELSE all
    IN  landingsForEach(board, startingTile, tile, byX, 1)

getAdjacentLandings(board, startingTile, tile, piece, captureXDirection, captureYDirection) ==
    LET all == getDirections(piece)
        byX == IF captureXDirection # NoDirection
               THEN SelectSeq(all, LAMBDA direction : direction[1] = captureXDirection)
               ELSE all
        byY == IF captureYDirection # NoDirection
               THEN SelectSeq(byX, LAMBDA direction : direction[2] = captureYDirection)
               ELSE byX
    IN  landingsForEach(board, startingTile, tile, byY, 1)

\* The forEach of getAdjacentEnemies over the piece's directions.
RECURSIVE enemiesForEach(_, _, _, _, _)
enemiesForEach(board, tile, piece, directions, i) ==
    IF i > Len(directions) THEN <<>>
    ELSE LET direction == directions[i]
             destination == getTile(getRow(tile) + direction[2],
                                    getColumn(tile) + direction[1])
             enemy == IF /\ destination # NoTile
                         /\ isTileOcuppied(board, destination)
                         /\ ~tileBelongsToPlayer(board, destination, piece.owner)
                      THEN <<destination>> ELSE <<>>
         IN  enemy \o enemiesForEach(board, tile, piece, directions, i + 1)

getAdjacentEnemies(board, tile, piece) ==
    enemiesForEach(board, tile, piece, getDirections(piece), 1)

isFirstMove(path) == Len(path) = 1

isPotentialCapture(board, tile, path) == isTileOcuppied(board, tile) /\ Len(path) > 1

\* canLookForEnemies also after a plain step.
canLookForEnemiesAfterStep(board, tile, startingTile, path) ==
    \/ ~isTileOcuppied(board, tile) /\ Len(path) > 1
    \/ tile = startingTile /\ Len(path) = 1

canLookForEnemies(board, tile, startingTile, path) ==
    \/ ~isTileOcuppied(board, tile) /\ Len(path) > 2
    \/ tile = startingTile /\ Len(path) = 1

\* Game.setPathsDFS: the paths it pushes on move.possiblePaths, in push order.
\* firstForEach, captureForEach and enemyForEach are its three forEach loops.
RECURSIVE setPathsDFS(_, _, _, _, _)
RECURSIVE firstForEach(_, _, _, _, _, _)
RECURSIVE captureForEach(_, _, _, _, _, _)
RECURSIVE enemyForEach(_, _, _, _, _, _)

firstForEach(board, startingTile, piece, path, landings, i) ==
    IF i > Len(landings) THEN <<>>
    ELSE setPathsDFS(board, startingTile, landings[i], piece, path)
         \o firstForEach(board, startingTile, piece, path, landings, i + 1)

captureForEach(board, startingTile, piece, path, landings, i) ==
    IF i > Len(landings) THEN <<>>
    ELSE LET landing == landings[i]
             pushed == IF ~Includes(path, landing)
                       THEN setPathsDFS(board, startingTile, landing, piece, path)
                       ELSE IF landing = startingTile /\ Len(path) > 2
                            THEN <<Append(path, landing)>>
                            ELSE <<>>
         IN  pushed \o captureForEach(board, startingTile, piece, path, landings, i + 1)

\* The forEach over the enemies without the test that the path has not
\* been on the enemy's tile yet.
enemyForEachRevisits(board, startingTile, piece, path, enemies, i) ==
    IF i > Len(enemies) THEN <<>>
    ELSE setPathsDFS(board, startingTile, enemies[i], piece, path)
         \o enemyForEach(board, startingTile, piece, path, enemies, i + 1)

enemyForEach(board, startingTile, piece, path, enemies, i) ==
    IF i > Len(enemies) THEN <<>>
    ELSE LET enemy == enemies[i]
             pushed == IF ~Includes(path, enemy)
                       THEN setPathsDFS(board, startingTile, enemy, piece, path)
                       ELSE <<>>
         IN  pushed \o enemyForEach(board, startingTile, piece, path, enemies, i + 1)

\* setPathsDFS pushing the path also when it ends on an occupied tile.
setPathsDFSAddsOccupied(board, startingTile, from, piece, oldPath) ==
    LET path == Append(oldPath, from)
        first ==
            IF isFirstMove(path)
            THEN firstForEach(board, startingTile, piece, path,
                     getAdjacentLandings(board, startingTile, from, piece,
                                         NoDirection, NoDirection), 1)
            ELSE <<>>
        afterEnemy ==
            IF isPotentialCapture(board, from, path)
            THEN LET xDirection == getColumn(path[Len(path)]) - getColumn(path[Len(path) - 1])
                     yDirection == getRow(path[Len(path)]) - getRow(path[Len(path) - 1])
                 IN  captureForEach(board, startingTile, piece, path,
                         getAdjacentLandings(board, startingTile, from, piece,
                                             xDirection, yDirection), 1)
            ELSE <<>>
        enemies ==
            IF canLookForEnemies(board, from, startingTile, path)
            THEN enemyForEach(board, startingTile, piece, path,
                     getAdjacentEnemies(board, from, piece), 1)
            ELSE <<>>
        add == <<path>>
    IN  first \o afterEnemy \o enemies \o add

\* setPathsDFS pushing a path only when no further jump was found from its end.
setPathsDFSEndsOnly(board, startingTile, from, piece, oldPath) ==
    LET path == Append(oldPath, from)
        first ==
            IF isFirstMove(path)
            THEN firstForEach(board, startingTile, piece, path,
                     getAdjacentLandings(board, startingTile, from, piece,
                                         NoDirection, NoDirection), 1)
            ELSE <<>>
        afterEnemy ==
            IF isPotentialCapture(board, from, path)
            THEN LET xDirection == getColumn(path[Len(path)]) - getColumn(path[Len(path) - 1])
                     yDirection == getRow(path[Len(path)]) - getRow(path[Len(path) - 1])
                 IN  captureForEach(board, startingTile, piece, path,
                         getAdjacentLandings(board, startingTile, from, piece,
                                             xDirection, yDirection), 1)
            ELSE <<>>
        enemies ==
            IF canLookForEnemies(board, from, startingTile, path)
            THEN enemyForEach(board, startingTile, piece, path,
                     getAdjacentEnemies(board, from, piece), 1)
            ELSE <<>>
        add == IF ~isTileOcuppied(board, from) /\ enemies = <<>> THEN <<path>> ELSE <<>>
    IN  first \o afterEnemy \o enemies \o add

setPathsDFS(board, startingTile, from, piece, oldPath) ==
    LET path == Append(oldPath, from)
        first ==
            IF isFirstMove(path)
            THEN firstForEach(board, startingTile, piece, path,
                     getAdjacentLandings(board, startingTile, from, piece,
                                         NoDirection, NoDirection), 1)
            ELSE <<>>
        afterEnemy ==
            IF isPotentialCapture(board, from, path)
            THEN LET xDirection == getColumn(path[Len(path)]) - getColumn(path[Len(path) - 1])
                     yDirection == getRow(path[Len(path)]) - getRow(path[Len(path) - 1])
                 IN  captureForEach(board, startingTile, piece, path,
                         getAdjacentLandings(board, startingTile, from, piece,
                                             xDirection, yDirection), 1)
            ELSE <<>>
        enemies ==
            IF canLookForEnemies(board, from, startingTile, path)
            THEN enemyForEach(board, startingTile, piece, path,
                     getAdjacentEnemies(board, from, piece), 1)
            ELSE <<>>
        add == IF ~isTileOcuppied(board, from) THEN <<path>> ELSE <<>>
    IN  first \o afterEnemy \o enemies \o add

\* Game.getCapturesForPath without the test on the owner of the piece.
getCapturesForPathAnyOccupied(board, path, player) ==
    SelectSeq(path, LAMBDA tile : isTileOcuppied(board, tile))


\* Game.getCapturesForPath: the tiles of the path that hold an opposing piece.
getCapturesForPath(board, path, player) ==
    SelectSeq(path, LAMBDA tile :
        isTileOcuppied(board, tile) /\ ~tileBelongsToPlayer(board, tile, player))

\* The ValidDestination object built from one path.
ValidDestination(board, path, player) ==
    [destination |-> Last(path),
     captures |-> getCapturesForPath(board, path, player),
     path |-> path]

\* Array.prototype.map of both setValidDestinations' forEach.
RECURSIVE destinationsForEach(_, _, _, _)
destinationsForEach(board, validPaths, player, i) ==
    IF i > Len(validPaths) THEN <<>>
    ELSE <<ValidDestination(board, validPaths[i], player)>>
         \o destinationsForEach(board, validPaths, player, i + 1)

\* BaseGame.setValidDestinations without the filter on the length of a path.
BaseSetValidDestinationsAnyLength(board, possiblePaths, player) ==
    destinationsForEach(board, possiblePaths, player, 1)

\* BaseGame.setValidDestinations: the destinations pushed for the paths.
BaseSetValidDestinations(board, possiblePaths, player) ==
    LET validPaths == SelectSeq(possiblePaths, LAMBDA path : Len(path) = 3 \/ Len(path) = 2)
    IN  destinationsForEach(board, validPaths, player, 1)

\* BonusGame.setValidDestinations that filters on the length of a path also
\* when no path is longer than 2.
BonusSetValidDestinationsOnlyCaptures(board, possiblePaths, player) ==
    destinationsForEach(board, SelectSeq(possiblePaths, LAMBDA path : Len(path) > 2),
                        player, 1)

\* BonusGame.setValidDestinations keeping only the paths that no other path
\* continues.
BonusSetValidDestinationsLongest(board, possiblePaths, player) ==
    LET continued(path) ==
            \E j \in 1..Len(possiblePaths) :
                /\ Len(possiblePaths[j]) > Len(path)
                /\ SubSeq(possiblePaths[j], 1, Len(path)) = path
        validPaths ==
            IF \E i \in 1..Len(possiblePaths) : Len(possiblePaths[i]) > 2
            THEN SelectSeq(possiblePaths, LAMBDA path : Len(path) > 2 /\ ~continued(path))
            ELSE possiblePaths
    IN  destinationsForEach(board, validPaths, player, 1)

\* BonusGame.setValidDestinations: the destinations pushed for the paths.
BonusSetValidDestinations(board, possiblePaths, player) ==
    LET validPaths ==
            IF \E i \in 1..Len(possiblePaths) : Len(possiblePaths[i]) > 2
            THEN SelectSeq(possiblePaths, LAMBDA path : Len(path) > 2)
            ELSE possiblePaths
    IN  destinationsForEach(board, validPaths, player, 1)

setValidDestinations(game, board, possiblePaths, player) ==
    IF game = "base"
    THEN BaseSetValidDestinations(board, possiblePaths, player)
    ELSE BonusSetValidDestinations(board, possiblePaths, player)

\* Game.setFrom on a reset move: from, the paths of the DFS and the
\* destinations the variant keeps.
setFrom(game, board, tile, player) ==
    LET piece == getPiece(board, tile)
        possiblePaths == setPathsDFS(board, tile, tile, piece, <<>>)
    IN  [from |-> tile,
         to |-> NoTile,
         possiblePaths |-> possiblePaths,
         validDestinations |-> setValidDestinations(game, board, possiblePaths, player)]

\* BaseGame.isFromValid refusing a piece without a capture while another tile
\* of the player has one.
BaseIsFromValidForced(board, tile, player) ==
    LET capturing(from) ==
            \E i \in 1..Len(setFrom("base", board, from, player).validDestinations) :
                Len(setFrom("base", board, from, player).validDestinations[i].captures) > 0
        owned == TilesOwnedBy(board, player)
    IN  /\ tileBelongsToPlayer(board, tile, player)
        /\ Len(setFrom("base", board, tile, player).validDestinations) # 0
        /\ (\E k \in 1..Len(owned) : capturing(owned[k])) => capturing(tile)

\* BaseGame.isFromValid: the tile is the player's and its simulated move has
\* at least one destination.
BaseIsFromValid(board, tile, player) ==
    /\ tileBelongsToPlayer(board, tile, player)
    /\ getPiece(board, tile) # NoPiece
    /\ Len(setFrom("base", board, tile, player).validDestinations) # 0

\* BonusGame.isFromValid: fromsWithCaptures and fromsWithDestinations over
\* all the player's tiles, then membership of the clicked tile.
fromsWithCaptures(board, player) ==
    SelectSeq(TilesOwnedBy(board, player), LAMBDA from :
        LET validDestinations == setFrom("bonus", board, from, player).validDestinations
        IN  \E i \in 1..Len(validDestinations) : Len(validDestinations[i].captures) > 0)

fromsWithDestinations(board, player) ==
    SelectSeq(TilesOwnedBy(board, player), LAMBDA from :
        Len(setFrom("bonus", board, from, player).validDestinations) > 0)

\* BonusGame.isFromValid that never looks at fromsWithCaptures.
BonusIsFromValidAnyDestination(board, tile, player) ==
    /\ tileBelongsToPlayer(board, tile, player)
    /\ Includes(fromsWithDestinations(board, player), tile)

BonusIsFromValid(board, tile, player) ==
    /\ tileBelongsToPlayer(board, tile, player)
    /\ IF Len(fromsWithCaptures(board, player)) = 0
       THEN Includes(fromsWithDestinations(board, player), tile)
       ELSE Includes(fromsWithCaptures(board, player), tile)

isFromValid(game, board, tile, player) ==
    IF game = "base"
    THEN BaseIsFromValid(board, tile, player)
    ELSE BonusIsFromValid(board, tile, player)

\* isFromValid whose last resetMove forgets to clear from.
moveAfterIsFromValidKeepsFrom(board, move, tile, player) ==
    IF tileBelongsToPlayer(board, tile, player)
    THEN [EmptyMove EXCEPT !.from = tile]
    ELSE move

\* The move isFromValid leaves behind: both variants call resetMove before
\* returning once the tile belongs to the player, and touch nothing otherwise.
moveAfterIsFromValid(board, move, tile, player) ==
    IF tileBelongsToPlayer(board, tile, player) THEN EmptyMove ELSE move

isToValid(move, tile) ==
    \E i \in 1..Len(move.validDestinations) : move.validDestinations[i].destination = tile

\* Game.getCapturesForDestination: the captures of the first destination
\* object whose destination is the tile.
getCapturesForDestination(move, tile) ==
    LET found == SelectSeq(move.validDestinations, LAMBDA vd : vd.destination = tile)
    IN  IF Len(found) # 0 THEN found[1].captures ELSE <<>>

\* Game.getCaptureInstructions
getCaptureInstructions(captures) ==
    [i \in 1..Len(captures) |->
        [rowToSet |-> getRow(captures[i]),
         colToSet |-> getColumn(captures[i]),
         newOwner |-> "none"]]

\* ---------------------------------------------------------------- playGame

Return(g, instr, where) == [gameState |-> g, instruction |-> instr, exit |-> where]

TileInstruction(row, column, newOwner) ==
    [rowToSet |-> row, colToSet |-> column, newOwner |-> newOwner]

\* playGame, queen selection, without the check of hasPlayerWon.
playGameNewQueenNoWinner(g, clickedTile, row, column) ==
    LET activePlayer == g.activePlayer
    IN  IF isValidQueen(g.board, clickedTile, activePlayer)
        THEN Return([g EXCEPT !.board = setNewQueen(g.board, clickedTile, activePlayer)],
                    [tileInstructions |->
                        <<TileInstruction(row, column,
                              IF activePlayer = "blue" THEN "blue queen" ELSE "red queen")>>,
                     playing |-> activePlayer,
                     winner |-> g.winner],
                    "newQueen")
        ELSE Return(g, NoInstruction, "invalidQueen")

\* playGame, queen selection (the active player has no queen).
playGameNewQueen(g, clickedTile, row, column) ==
    LET activePlayer == g.activePlayer
    IN  IF isValidQueen(g.board, clickedTile, activePlayer)
        THEN LET board == setNewQueen(g.board, clickedTile, activePlayer)
                 crowned == [g EXCEPT !.board = board]
                 after == IF hasPlayerWon(board, activePlayer)
                          THEN setWinner(crowned, activePlayer)
                          ELSE crowned
             IN  Return(after,
                        [tileInstructions |->
                            <<TileInstruction(row, column,
                                  IF activePlayer = "blue" THEN "blue queen" ELSE "red queen")>>,
                         playing |-> activePlayer,
                         winner |-> after.winner],
                        "newQueen")
        ELSE Return(g, NoInstruction, "invalidQueen")

\* playGame, source selection, that also takes the piece off its tile.
playGameFromLiftsPiece(game, g, clickedTile, row, column) ==
    LET activePlayer == g.activePlayer
    IN  IF isFromValid(game, g.board, clickedTile, activePlayer)
        THEN Return([g EXCEPT !.move = setFrom(game, g.board, clickedTile, activePlayer),
                              !.board = setPiece(g.board, clickedTile, NoPiece)],
                    [tileInstructions |-> <<TileInstruction(row, column, "none")>>,
                     playing |-> activePlayer,
                     winner |-> g.winner],
                    "from")
        ELSE Return([g EXCEPT !.move =
                        moveAfterIsFromValid(g.board, g.move, clickedTile, activePlayer)],
                    NoInstruction, "invalidFrom")


\* playGame, source selection (from is not set).
playGameFrom(game, g, clickedTile, row, column) ==
    LET activePlayer == g.activePlayer
    IN  IF isFromValid(game, g.board, clickedTile, activePlayer)
        THEN Return([g EXCEPT !.move = setFrom(game, g.board, clickedTile, activePlayer)],
                    [tileInstructions |-> <<TileInstruction(row, column, "none")>>,
                     playing |-> activePlayer,
                     winner |-> g.winner],
                    "from")
        ELSE Return([g EXCEPT !.move =
                        moveAfterIsFromValid(g.board, g.move, clickedTile, activePlayer)],
                    NoInstruction, "invalidFrom")

\* playGame, the accepted destination, without the last resetMove.
playGameToKeepsMove(g, clickedTile, row, column, fromOwner) ==
    LET activePlayer == g.activePlayer
        from == g.move.from
        captures == getCapturesForDestination(g.move, clickedTile)
        captureInstructions == getCaptureInstructions(captures)
        captured == capture(g.board, captures)
        placed == setPiece(captured, clickedTile, getPiece(captured, from))
        moved == setPiece(placed, from, NoPiece)
        made == [g EXCEPT !.board = moved, !.move.to = clickedTile]
        after == IF hasPlayerWon(moved, activePlayer)
                 THEN setWinner(made, activePlayer)
                 ELSE IF rivalHasPieces(moved, activePlayer)
                      THEN switchPlayer(made)
                      ELSE made
    IN  Return(after,
               [tileInstructions |->
                    <<TileInstruction(row, column, fromOwner)>> \o captureInstructions,
                playing |-> after.activePlayer,
                winner |-> after.winner],
               "to")


\* playGame, destination selection: the accepted destination.
playGameTo(g, clickedTile, row, column, fromOwner) ==
    LET activePlayer == g.activePlayer
        from == g.move.from
        captures == getCapturesForDestination(g.move, clickedTile)
        captureInstructions == getCaptureInstructions(captures)
        captured == capture(g.board, captures)
        placed == setPiece(captured, clickedTile, getPiece(captured, from))
        moved == setPiece(placed, from, NoPiece)
        made == [g EXCEPT !.board = moved, !.move.to = clickedTile]
        after == IF hasPlayerWon(moved, activePlayer)
                 THEN setWinner(made, activePlayer)
                 ELSE IF rivalHasPieces(moved, activePlayer)
                      THEN switchPlayer(made)
                      ELSE made
    IN  Return([after EXCEPT !.move = EmptyMove],
               [tileInstructions |->
                    <<TileInstruction(row, column, fromOwner)>> \o captureInstructions,
                playing |-> after.activePlayer,
                winner |-> after.winner],
               "to")

\* playGame, destination selection, testing isToValid before the click on the
\* source.
playGameDestinationToFirst(g, clickedTile, row, column) ==
    LET activePlayer == g.activePlayer
        fromOwner == getTileOwnerString(g.board, g.move.from)
    IN  IF isToValid(g.move, clickedTile)
        THEN playGameTo(g, clickedTile, row, column, fromOwner)
        ELSE IF g.move.from = clickedTile
             THEN Return([g EXCEPT !.move = EmptyMove],
                         [tileInstructions |-> <<TileInstruction(row, column, fromOwner)>>,
                          playing |-> activePlayer,
                          winner |-> g.winner],
                         "cancel")
             ELSE Return(g, NoInstruction, "invalidTo")


\* playGame, destination selection (from is set, to is not).
playGameDestination(g, clickedTile, row, column) ==
    LET activePlayer == g.activePlayer
        fromOwner == getTileOwnerString(g.board, g.move.from)
    IN  IF g.move.from = clickedTile
        THEN Return([g EXCEPT !.move = EmptyMove],
                    [tileInstructions |-> <<TileInstruction(row, column, fromOwner)>>,
                     playing |-> activePlayer,
                     winner |-> g.winner],
                    "cancel")
        ELSE IF isToValid(g.move, clickedTile)
             THEN playGameTo(g, clickedTile, row, column, fromOwner)
             ELSE Return(g, NoInstruction, "invalidTo")

\* Game.playGame(row, column): the new game state, the returned instruction
\* and the return statement taken.
playGame(game, g, row, column) ==
    LET activePlayer == g.activePlayer
        clickedTile == getTile(row, column)
    IN  IF clickedTile = NoTile THEN Return(g, NoInstruction, "invalidTile")
        ELSE IF isGameWon(g) THEN Return(g, NoInstruction, "gameWon")
        ELSE IF ~playerHasQueen(g.board, activePlayer)
             THEN playGameNewQueen(g, clickedTile, row, column)
        ELSE IF g.move.from = NoTile
             THEN playGameFrom(game, g, clickedTile, row, column)
        ELSE IF g.move.from # NoTile /\ g.move.to = NoTile
             THEN playGameDestination(g, clickedTile, row, column)
        ELSE Return(g, NoInstruction, "end")

\* Game.restartGame: the tile instruction for the tile at array index.
restartTileInstruction(index) ==
    LET tile == Tiles[index + 1]
        row == getRow(tile)
        column == getColumn(tile)
    IN  IF (row + column) % 2 = 0 /\ index < 24
        THEN TileInstruction(row, column, IF index = 0 THEN "blue queen" ELSE "blue pawn")
        ELSE IF (row + column) % 2 = 0 /\ index > 40
             THEN TileInstruction(row, column, IF index = 63 THEN "red queen" ELSE "red pawn")
             ELSE TileInstruction(row, column, "none")

restartGame ==
    Return(NewGameState,
           [tileInstructions |-> ArrayFrom(64, restartTileInstruction, 0),
            playing |-> "blue",
            winner |-> NoPlayer],
           "restart")

\* -------------------------------------------------------------- view store

\* initializeBoard: withPieces, then board[i][j] = withPieces[j * 8 + i], then
\* the two queens.  board[i][j] is kept at [i + 1][j + 1].
withPieces(i) ==
    IF ((i \div 8) + (i % 8)) % 2 = 0
    THEN IF i < 24 THEN "blue pawn"
         ELSE IF i > 40 THEN "red pawn" ELSE "none"
    ELSE "none"

initializeBoard ==
    LET column(i) == LET cell(j) == withPieces(j * 8 + i) IN ArrayFrom(8, cell, 0)
        board == ArrayFrom(8, column, 0)
    IN  [board EXCEPT ![1][1] = "blue queen", ![8][8] = "red queen"]

\* The store after the module of the handlers is loaded: initialize(), then
\* setTurn("blue").
InitialUiState == [board |-> initializeBoard, turn |-> "blue", winner |-> NoPlayer]

\* setTile writing board[row][column].
setTileRowFirst(ui, row, column, owner) == [ui EXCEPT !.board[row + 1][column + 1] = owner]


\* setTile(row, column, owner): board[column][row] = owner.
setTile(ui, row, column, owner) == [ui EXCEPT !.board[column + 1][row + 1] = owner]

setTurn(ui, player) == [ui EXCEPT !.turn = player]

setUiWinner(ui, player) == [ui EXCEPT !.winner = player]

\* setTurn(playing); if (winner !== undefined) setWinner(playing);
setTurnAndWinner(ui, instr) ==
    IF instr.winner # NoPlayer
    THEN setUiWinner(setTurn(ui, instr.playing), instr.playing)
    ELSE setTurn(ui, instr.playing)

\* tileInstructions.forEach(... setTile ...)
RECURSIVE setTiles(_, _, _)
setTiles(ui, tileInstructions, i) ==
    IF i > Len(tileInstructions) THEN ui
    ELSE setTiles(setTile(ui, tileInstructions[i].rowToSet, tileInstructions[i].colToSet,
                          tileInstructions[i].newOwner),
                  tileInstructions, i + 1)

\* ---------------------------------------------------------------- handlers

\* The part of the state a handler reads and writes.
System(g, instr, where, ui) ==
    [gameState |-> g, instruction |-> instr, exit |-> where, uiState |-> ui]

\* The body of onTileClick's if: the tiles, the turn and the winner of the
\* instruction go to the view store.
renderInstruction(ui, instr) ==
    setTurnAndWinner(setTiles(ui, instr.tileInstructions, 1), instr)

\* What onTileClick does with the outcome of playGame.
afterPlayGame(ui, out) ==
    System(out.gameState, out.instruction, out.exit,
           IF out.instruction # NoInstruction
           THEN renderInstruction(ui, out.instruction)
           ELSE ui)

\* onTileClick(row, column): playGame, then the view updates.
onTileClick(game, sys, row, column) ==
    afterPlayGame(sys.uiState, playGame(game, sys.gameState, row, column))

\* What onRestart does with the outcome of restartGame.
afterRestartGame(ui, out) ==
    System(out.gameState, out.instruction, out.exit,
           setTiles(setTurn(setUiWinner(ui, NoPlayer), "blue"),
                    out.instruction.tileInstructions, 1))

\* onRestart(): restartGame, then the view updates.
onRestart(sys) == afterRestartGame(sys.uiState, restartGame)

\* The state once the module of the handlers is loaded.
Constructed == System(NewGameState, NoInstruction, "constructed", InitialUiState)

\* ---------------------------------------------------------------- openings

\* Click sequences played from the constructed state; each ends between two
\* moves. Every click of every sequence is accepted by both variants, with
\* the same effect on the board, so each sequence leads each variant to a
\* state it can really be in.

\* Blue to move, a single capture is on offer (4 clicks).
CaptureOpening ==
    <<
       <<2, 4>>, <<3, 3>>, <<5, 1>>, <<4, 2>>
    >>

\* Red to move, a two-capture chain is on offer (10 clicks).
ChainOpening ==
    <<
       <<2, 2>>, <<3, 3>>, <<5, 1>>, <<4, 0>>, <<1, 3>>, <<2, 2>>, <<6, 2>>, <<5, 1>>, <<3,
       3>>, <<4, 4>>
    >>

\* Red to move, a three-capture chain is on offer (30 clicks).
LongChainOpening ==
    <<
       <<2, 4>>, <<3, 3>>, <<5, 5>>, <<4, 4>>, <<3, 3>>, <<5, 5>>, <<6, 4>>, <<4, 6>>, <<2,
       2>>, <<3, 1>>, <<4, 6>>, <<3, 7>>, <<2, 6>>, <<3, 5>>, <<3, 7>>, <<2, 6>>, <<1, 5>>,
       <<3, 7>>, <<5, 1>>, <<4, 0>>, <<1, 3>>, <<2, 2>>, <<7, 3>>, <<6, 4>>, <<0, 6>>, <<1,
       5>>, <<5, 7>>, <<4, 6>>, <<3, 7>>, <<5, 5>>
    >>

\* Blue to move, the red queen can be captured (24 clicks).
QueenCaptureOpening ==
    <<
       <<2, 6>>, <<3, 5>>, <<5, 3>>, <<4, 2>>, <<3, 5>>, <<4, 4>>, <<5, 5>>, <<3, 3>>, <<2,
       2>>, <<4, 4>>, <<5, 7>>, <<4, 6>>, <<1, 5>>, <<2, 6>>, <<6, 6>>, <<5, 5>>, <<4, 4>>,
       <<6, 6>>, <<7, 7>>, <<5, 5>>, <<2, 6>>, <<3, 5>>, <<5, 5>>, <<4, 4>>
    >>

\* Blue to move, red's last piece can be captured (80 clicks).
EliminationOpening ==
    <<
       <<2, 4>>, <<3, 3>>, <<5, 1>>, <<4, 2>>, <<3, 3>>, <<5, 1>>, <<6, 2>>, <<4, 0>>, <<2,
       2>>, <<3, 3>>, <<5, 5>>, <<4, 6>>, <<3, 3>>, <<4, 4>>, <<5, 3>>, <<3, 5>>, <<2, 6>>,
       <<4, 4>>, <<4, 0>>, <<3, 1>>, <<2, 0>>, <<4, 2>>, <<6, 4>>, <<5, 5>>, <<4, 4>>, <<5,
       3>>, <<7, 1>>, <<6, 2>>, <<5, 3>>, <<7, 1>>, <<4, 6>>, <<3, 5>>, <<1, 3>>, <<2, 4>>,
       <<3, 5>>, <<1, 3>>, <<0, 4>>, <<2, 2>>, <<7, 3>>, <<6, 4>>, <<1, 5>>, <<2, 6>>, <<5,
       5>>, <<4, 4>>, <<0, 6>>, <<1, 5>>, <<5, 7>>, <<4, 6>>, <<1, 5>>, <<2, 4>>, <<4, 4>>,
       <<3, 5>>, <<2, 6>>, <<4, 4>>, <<4, 6>>, <<3, 5>>, <<2, 4>>, <<4, 6>>, <<6, 0>>, <<5,
       1>>, <<4, 2>>, <<6, 0>>, <<6, 4>>, <<5, 5>>, <<4, 6>>, <<6, 4>>, <<7, 5>>, <<5, 3>>,
       <<4, 4>>, <<6, 2>>, <<6, 6>>, <<5, 5>>, <<2, 2>>, <<3, 3>>, <<5, 5>>, <<4, 4>>, <<3,
       3>>, <<5, 5>>, <<7, 7>>, <<6, 6>>
    >>

\* Red to move, the red queen stands next to row 0 (67 clicks).
WinOpening ==
    <<
       <<2, 0>>, <<3, 1>>, <<5, 3>>, <<4, 4>>, <<2, 4>>, <<3, 3>>, <<6, 4>>, <<5, 3>>, <<2,
       6>>, <<3, 5>>, <<4, 4>>, <<2, 6>>, <<1, 5>>, <<3, 7>>, <<5, 3>>, <<4, 2>>, <<3, 1>>,
       <<5, 3>>, <<6, 2>>, <<4, 4>>, <<3, 3>>, <<4, 2>>, <<5, 1>>, <<3, 3>>, <<3, 7>>, <<4,
       6>>, <<5, 5>>, <<3, 7>>, <<0, 6>>, <<1, 5>>, <<7, 3>>, <<6, 4>>, <<1, 5>>, <<2, 6>>,
       <<3, 7>>, <<1, 5>>, <<0, 4>>, <<2, 6>>, <<4, 4>>, <<3, 5>>, <<2, 2>>, <<4, 4>>, <<6,
       0>>, <<5, 1>>, <<1, 1>>, <<2, 0>>, <<6, 6>>, <<5, 5>>, <<4, 4>>, <<6, 6>>, <<7, 7>>,
       <<5, 5>>, <<2, 6>>, <<4, 4>>, <<5, 5>>, <<3, 3>>, <<0, 0>>, <<1, 1>>, <<7, 1>>, <<6,
       0>>, <<1, 1>>, <<2, 2>>, <<3, 3>>, <<1, 1>>, <<0, 2>>, <<1, 7>>, <<2, 6>>
    >>

\* Blue to move, the blue queen was just captured (24 clicks).
QueenLostOpening ==
    <<
       <<2, 4>>, <<3, 3>>, <<5, 3>>, <<4, 4>>, <<3, 3>>, <<4, 2>>, <<5, 1>>, <<3, 3>>, <<2,
       0>>, <<3, 1>>, <<6, 0>>, <<5, 1>>, <<1, 1>>, <<2, 0>>, <<3, 3>>, <<1, 1>>, <<0, 0>>,
       <<2, 2>>, <<4, 4>>, <<3, 3>>, <<2, 2>>, <<4, 4>>, <<5, 5>>, <<3, 3>>
    >>

\* Red to move without a queen, its only piece on row 0 (94 clicks).
QueenLostOnLastRowOpening ==
    <<
       <<2, 6>>, <<3, 7>>, <<5, 3>>, <<4, 2>>, <<2, 4>>, <<3, 5>>, <<5, 5>>, <<4, 4>>, <<3,
       5>>, <<5, 3>>, <<6, 2>>, <<4, 4>>, <<1, 5>>, <<2, 6>>, <<6, 4>>, <<5, 5>>, <<2, 0>>,
       <<3, 1>>, <<4, 2>>, <<2, 0>>, <<0, 6>>, <<1, 5>>, <<5, 1>>, <<4, 0>>, <<1, 3>>, <<2,
       4>>, <<5, 5>>, <<4, 6>>, <<3, 7>>, <<5, 5>>, <<4, 4>>, <<3, 5>>, <<2, 4>>, <<4, 6>>,
       <<5, 7>>, <<3, 5>>, <<2, 6>>, <<4, 4>>, <<7, 3>>, <<6, 4>>, <<5, 5>>, <<7, 3>>, <<6,
       6>>, <<5, 7>>, <<0, 2>>, <<1, 3>>, <<2, 0>>, <<0, 2>>, <<1, 5>>, <<2, 4>>, <<7, 5>>,
       <<6, 6>>, <<0, 0>>, <<1, 1>>, <<4, 0>>, <<3, 1>>, <<2, 2>>, <<4, 0>>, <<6, 0>>, <<5,
       1>>, <<4, 0>>, <<6, 2>>, <<7, 1>>, <<5, 3>>, <<4, 4>>, <<6, 2>>, <<6, 6>>, <<5, 5>>,
       <<0, 4>>, <<1, 5>>, <<5, 7>>, <<4, 6>>, <<1, 5>>, <<2, 6>>, <<5, 5>>, <<4, 4>>, <<1,
       1>>, <<0, 0>>, <<7, 7>>, <<6, 6>>, <<2, 6>>, <<3, 5>>, <<4, 4>>, <<2, 6>>, <<1, 7>>,
       <<3, 5>>, <<6, 6>>, <<5, 5>>, <<3, 5>>, <<5, 7>>, <<5, 5>>, <<6, 6>>, <<5, 7>>, <<7,
       5>>
    >>

\* Blue to move, the blue queen on (2,2) inside a ring of four red pawns on
\* (1,3), (1,5), (3,5), (3,3) with every landing free (100 clicks).
DiamondOpening ==
    <<
       <<2, 2>>, <<3, 3>>, <<5, 3>>, <<4, 2>>, <<3, 3>>, <<4, 4>>, <<5, 5>>, <<3, 3>>, <<2,
       4>>, <<3, 5>>, <<5, 7>>, <<4, 6>>, <<3, 5>>, <<5, 7>>, <<6, 2>>, <<5, 3>>, <<1, 3>>,
       <<2, 4>>, <<6, 6>>, <<5, 5>>, <<2, 4>>, <<3, 5>>, <<5, 5>>, <<4, 6>>, <<2, 0>>, <<3,
       1>>, <<4, 6>>, <<2, 4>>, <<1, 1>>, <<2, 0>>, <<7, 7>>, <<6, 6>>, <<0, 0>>, <<1, 1>>,
       <<6, 6>>, <<7, 7>>, <<2, 6>>, <<3, 7>>, <<7, 7>>, <<6, 6>>, <<1, 5>>, <<2, 6>>, <<6,
       6>>, <<5, 5>>, <<5, 7>>, <<6, 6>>, <<7, 5>>, <<5, 7>>, <<3, 7>>, <<4, 6>>, <<5, 5>>,
       <<3, 7>>, <<2, 6>>, <<3, 5>>, <<3, 7>>, <<2, 6>>, <<1, 1>>, <<2, 2>>, <<2, 6>>, <<4,
       4>>, <<0, 2>>, <<1, 1>>, <<6, 4>>, <<5, 5>>, <<0, 4>>, <<1, 5>>, <<7, 3>>, <<6, 4>>,
       <<1, 5>>, <<2, 6>>, <<5, 5>>, <<4, 6>>, <<2, 6>>, <<3, 7>>, <<4, 6>>, <<3, 5>>, <<3,
       7>>, <<4, 6>>, <<6, 4>>, <<5, 5>>, <<4, 6>>, <<6, 4>>, <<5, 7>>, <<4, 6>>, <<6, 4>>,
       <<7, 5>>, <<4, 6>>, <<3, 7>>, <<1, 7>>, <<2, 6>>, <<3, 7>>, <<1, 5>>, <<3, 1>>, <<4,
       0>>, <<4, 4>>, <<5, 5>>, <<4, 0>>, <<6, 2>>, <<2, 4>>, <<1, 3>>
    >>

\* Blue to move with its queen as its only piece, on (0,0), behind the red
\* pawns on (1,1) and (2,2) (116 clicks).
StuckOpening ==
    <<
       <<2, 0>>, <<3, 1>>, <<5, 1>>, <<4, 2>>, <<2, 6>>, <<3, 5>>, <<4, 2>>, <<2, 0>>, <<3,
       5>>, <<4, 4>>, <<5, 3>>, <<3, 5>>, <<2, 4>>, <<4, 6>>, <<5, 7>>, <<3, 5>>, <<1, 7>>,
       <<2, 6>>, <<3, 5>>, <<1, 7>>, <<1, 5>>, <<2, 4>>, <<5, 5>>, <<4, 4>>, <<2, 4>>, <<3,
       5>>, <<4, 4>>, <<2, 6>>, <<0, 4>>, <<1, 5>>, <<2, 6>>, <<0, 4>>, <<0, 6>>, <<1, 5>>,
       <<6, 2>>, <<5, 3>>, <<1, 5>>, <<2, 4>>, <<5, 3>>, <<4, 2>>, <<2, 4>>, <<3, 3>>, <<4,
       2>>, <<2, 4>>, <<1, 3>>, <<3, 5>>, <<6, 6>>, <<5, 7>>, <<3, 5>>, <<4, 6>>, <<5, 7>>,
       <<3, 5>>, <<0, 2>>, <<1, 3>>, <<2, 0>>, <<0, 2>>, <<1, 3>>, <<2, 4>>, <<3, 5>>, <<1,
       3>>, <<2, 2>>, <<3, 1>>, <<6, 4>>, <<5, 3>>, <<3, 1>>, <<4, 2>>, <<5, 3>>, <<3, 1>>,
       <<0, 0>>, <<1, 1>>, <<3, 1>>, <<2, 0>>, <<1, 1>>, <<0, 0>>, <<7, 3>>, <<6, 4>>, <<0,
       0>>, <<1, 1>>, <<6, 0>>, <<5, 1>>, <<1, 1>>, <<0, 0>>, <<5, 1>>, <<4, 0>>, <<0, 0>>,
       <<1, 1>>, <<4, 0>>, <<3, 1>>, <<1, 1>>, <<0, 0>>, <<6, 4>>, <<5, 3>>, <<0, 0>>, <<1,
       1>>, <<1, 7>>, <<0, 6>>, <<1, 1>>, <<0, 0>>, <<5, 3>>, <<4, 4>>, <<0, 0>>, <<1, 1>>,
       <<7, 5>>, <<6, 4>>, <<1, 1>>, <<0, 0>>, <<4, 4>>, <<3, 3>>, <<0, 0>>, <<1, 1>>, <<3,
       1>>, <<2, 2>>, <<1, 1>>, <<0, 0>>, <<2, 0>>, <<1, 1>>
    >>


Openings ==
    <<
       <<>>,
       CaptureOpening,
       ChainOpening,
       LongChainOpening,
       QueenCaptureOpening,
       EliminationOpening,
       WinOpening,
       QueenLostOpening,
       QueenLostOnLastRowOpening,
       DiamondOpening,
       StuckOpening
    >>

\* The state after clicks first..last of an opening, played one by one in
\* order from sys: the first half, then the second half from where it ends.
RECURSIVE Replay(_, _, _, _, _)
Replay(game, sys, opening, first, last) ==
    IF first > last THEN sys
    ELSE IF first = last
         THEN onTileClick(game, sys, opening[first][1], opening[first][2])
         ELSE LET middle == (first + last) \div 2
              IN  CHOOSE end \in
                     {Replay(game, half, opening, middle + 1, last) :
                         half \in {Replay(game, sys, opening, first, middle)}} : TRUE

\* ------------------------------------------------------------ state machine

\* Rows and columns a click may carry: the board's 0..7 and one beyond.
Coordinate == 0..8

Init ==
    \E game \in {"base", "bonus"}, o \in 1..Len(Openings) :
        \E sys \in {Replay(game, Constructed, Openings[o], 1, Len(Openings[o]))} :
            /\ variant = game
            /\ gameState = sys.gameState
            /\ instruction = sys.instruction
            /\ exit = sys.exit
            /\ uiState = sys.uiState
            /\ clicks = 0

TileClick ==
    /\ clicks < MaxClicks
    /\ \E row \in Coordinate, column \in Coordinate :
        \E sys \in {onTileClick(variant, System(gameState, instruction, exit, uiState),
                                 row, column)} :
            /\ gameState' = sys.gameState
            /\ instruction' = sys.instruction
            /\ exit' = sys.exit
            /\ uiState' = sys.uiState
            /\ clicks' = IF sys.instruction # NoInstruction THEN clicks + 1 ELSE clicks
            /\ UNCHANGED variant

Restart ==
    \E sys \in {onRestart(System(gameState, instruction, exit, uiState))} :
        /\ gameState' = sys.gameState
        /\ instruction' = sys.instruction
        /\ exit' = sys.exit
        /\ uiState' = sys.uiState
        /\ clicks' = 0
        /\ UNCHANGED variant

Next == TileClick \/ Restart

Spec == Init /\ [][Next]_vars

\* ------------------------------------------------ boards given from outside

\* The functions of the board are also run on boards that no play from the
\* opening position is needed to reach: every placement of pawns on a few
\* squares, with either player to click first.
BoardSquares == << <<0, 0>>, <<2, 0>>, <<2, 2>>, <<3, 1>>, <<3, 3>>, <<7, 7>> >>

BoardPieces == {NoPiece, Piece("blue", "pawn"), Piece("red", "pawn")}

PlacedBoard(placement) ==
    LET cell(index) ==
            IF \E k \in 1..Len(BoardSquares) : BoardSquares[k] = Tiles[index + 1]
            THEN placement[CHOOSE k \in 1..Len(BoardSquares) :
                                BoardSquares[k] = Tiles[index + 1]]
            ELSE NoPiece
    IN  ArrayFrom(64, cell, 0)

\* The view of a board: one setTile per square.
PlacedUiState(board, player) ==
    LET cell(index) ==
            LET tile == Tiles[index + 1]
            IN  TileInstruction(getRow(tile), getColumn(tile),
                                getTileOwnerString(board, tile))
    IN  setTurn(setTiles(InitialUiState, ArrayFrom(64, cell, 0), 1), player)

InitBoards ==
    \E game \in {"base", "bonus"}, player \in Player,
       placement \in [1..Len(BoardSquares) -> BoardPieces] :
        \E board \in {PlacedBoard(placement)} :
            /\ variant = game
            /\ gameState = [NewGameState EXCEPT !.board = board,
                                                !.activePlayer = player]
            /\ instruction = NoInstruction
            /\ exit = "constructed"
            /\ uiState = PlacedUiState(board, player)
            /\ clicks = 0

\* The first accepted click on a given board.
FirstClick == clicks = 0 /\ TileClick

SpecBoards == InitBoards /\ [][FirstClick]_vars

\* -------------------------------------------- boards given to the path finder

\* A piece of either kind on the source square and pawns of either player on
\* the squares around it: the four squares a queen on the source can jump in a
\* cycle, the landing square of the first jump and the square behind the
\* source.  The owner of the piece on the source clicks first, in the game the
\* page constructs (new BonusGame()).
SourceSquare == <<2, 2>>

SourcePieces == {Piece(owner, type) : owner \in Player, type \in {"pawn", "queen"}}

PathSquares == << <<3, 3>>, <<5, 3>>, <<5, 1>>, <<3, 1>>, <<4, 4>>, <<1, 1>> >>

PathBoard(source, placement) ==
    LET cell(index) ==
            IF Tiles[index + 1] = SourceSquare
            THEN source
            ELSE IF \E k \in 1..Len(PathSquares) : PathSquares[k] = Tiles[index + 1]
                 THEN placement[CHOOSE k \in 1..Len(PathSquares) :
                                    PathSquares[k] = Tiles[index + 1]]
                 ELSE NoPiece
    IN  ArrayFrom(64, cell, 0)

InitPaths ==
    \E game \in {"bonus"}, source \in SourcePieces,
       placement \in [1..Len(PathSquares) -> BoardPieces] :
        \E board \in {PathBoard(source, placement)} :
            /\ variant = game
            /\ gameState = [NewGameState EXCEPT !.board = board,
                                                !.activePlayer = source.owner]
            /\ instruction = NoInstruction
            /\ exit = "constructed"
            /\ uiState = PlacedUiState(board, source.owner)
            /\ clicks = 0

SpecPaths == InitPaths /\ [][FirstClick]_vars

\* ================================================================== claims

\* ------------------------------------------------- vocabulary of the claims

Rival(player) == IF player = "blue" THEN "red" ELSE "blue"

WinningRow(player) == IF player = "blue" THEN 7 ELSE 0

\* The squares holding a piece of the player, and those holding its queens.
SquaresOf(board, player) == {tile \in TileSet : getPiece(board, tile).owner = player}

QueensOf(board, player) ==
    {tile \in SquaresOf(board, player) : getPiece(board, tile).type = "queen"}

QueenOnWinningRow(board, player) ==
    \E tile \in QueensOf(board, player) : getRow(tile) = WinningRow(player)

\* The label of a piece: "<owner> <type>", "none" for no piece.
LabelOf(piece) ==
    CASE piece = Piece("blue", "pawn") -> "blue pawn"
      [] piece = Piece("blue", "queen") -> "blue queen"
      [] piece = Piece("red", "pawn") -> "red pawn"
      [] piece = Piece("red", "queen") -> "red queen"
      [] piece = NoPiece -> "none"

\* The square an accepted click was made on: the first tile instruction.
ClickedSquare(instr) ==
    <<instr.tileInstructions[1].rowToSet, instr.tileInstructions[1].colToSet>>

\* The parts of the game state outside the move.
Position(g) == <<g.board, g.activePlayer, g.winner, g.status>>

\* A step of playGame, by the return statement it left through.
ClickStep == exit' \notin {"restart", "constructed"}

\* ----------------------------------------------------------------------- C1
\* C1: once a winner is set, every playGame call returns undefined and leaves
\* board, active player, winner, status and move as they were; only
\* restartGame changes the finished state.
C1_FinishedIsTerminal ==
    [][gameState.winner # NoPlayer
        => \/ exit' = "restart"
           \/ /\ instruction' = NoInstruction
              /\ exit' \in {"invalidTile", "gameWon"}
              /\ gameState' = gameState]_vars

\* A click made on a finished game was ignored.
C1_Witness ==
    /\ gameState.winner # NoPlayer
    /\ exit = "gameWon"
    /\ instruction = NoInstruction

\* ----------------------------------------------------------------------- C2
\* C2: after an accepted destination click, if the queen of the player who
\* moved stands on that player's winning row, that player is the winner, the
\* status is inactive and the active player has not changed; if it does not,
\* there is no winner.
C2_WinOnDestination ==
    [][exit' = "to"
        => IF QueenOnWinningRow(gameState'.board, gameState.activePlayer)
           THEN /\ gameState'.winner = gameState.activePlayer
                /\ gameState'.status = "inactive"
                /\ gameState'.activePlayer = gameState.activePlayer
           ELSE /\ gameState'.winner = NoPlayer
                /\ gameState'.status = "active"]_vars

\* A destination click has put the mover's queen on its winning row.
C2_Witness ==
    /\ exit = "to"
    /\ gameState.winner = gameState.activePlayer
    /\ QueenOnWinningRow(gameState.board, gameState.activePlayer)
    /\ ClickedSquare(instruction) \in QueensOf(gameState.board, gameState.activePlayer)

\* ----------------------------------------------------------------------- C3
\* C3: after an accepted destination click that does not win, the active
\* player is the opponent of the mover if and only if the opponent still has
\* a piece on the board after the move; otherwise it is still the mover.
C3_TurnPassesIffRivalHasPieces ==
    [][(exit' = "to" /\ gameState'.winner = NoPlayer)
        => IF SquaresOf(gameState'.board, Rival(gameState.activePlayer)) # {}
           THEN gameState'.activePlayer = Rival(gameState.activePlayer)
           ELSE gameState'.activePlayer = gameState.activePlayer]_vars

\* A destination click has captured the opponent's last piece and the mover
\* is still the active player.
C3_Witness ==
    /\ exit = "to"
    /\ gameState.winner = NoPlayer
    /\ Len(instruction.tileInstructions) > 1
    /\ SquaresOf(gameState.board, Rival(gameState.activePlayer)) = {}
    /\ ClickedSquare(instruction) \in SquaresOf(gameState.board, gameState.activePlayer)

\* ----------------------------------------------------------------------- C4
\* C4: a click outside the board, a rejected click in source selection and a
\* rejected click in destination selection each return undefined and leave the
\* whole game state, the move included, as it was.
C4_IgnoredClicksChangeNothing ==
    [][exit' \in {"invalidTile", "invalidFrom", "invalidTo"}
        => /\ instruction' = NoInstruction
           /\ gameState' = gameState
           /\ exit' = "invalidFrom"
                => /\ gameState.winner = NoPlayer
                   /\ QueensOf(gameState.board, gameState.activePlayer) # {}
                   /\ gameState.move = EmptyMove
           /\ exit' = "invalidTo"
                => /\ gameState.winner = NoPlayer
                   /\ gameState.move.from # NoTile]_vars

\* A click in destination selection was rejected.
C4_Witness ==
    /\ exit = "invalidTo"
    /\ instruction = NoInstruction
    /\ gameState.move.from # NoTile
    /\ Len(gameState.move.validDestinations) > 0

\* ----------------------------------------------------------------------- C5
\* C5: selecting a source square S and clicking S again is a round trip: the
\* selection starts from an empty move and changes nothing outside the move,
\* and the second click changes nothing outside the move, empties the move
\* and returns the instruction that sets S to the label of the piece on S.
C5_SelectThenCancel ==
    [][/\ exit' = "from"
            => /\ gameState.move = EmptyMove
               /\ Position(gameState') = Position(gameState)
               /\ gameState'.move.from = ClickedSquare(instruction')
       /\ exit' = "cancel"
            => /\ Position(gameState') = Position(gameState)
               /\ gameState'.move = EmptyMove
               /\ ClickedSquare(instruction') = gameState.move.from
               /\ instruction'.tileInstructions =
                    <<[rowToSet |-> gameState.move.from[1],
                       colToSet |-> gameState.move.from[2],
                       newOwner |-> LabelOf(getPiece(gameState.board,
                                                     gameState.move.from))]>>
               /\ instruction'.playing = gameState.activePlayer
               /\ instruction'.winner = NoPlayer]_vars

\* A selected queen was put back on its square.
C5_Witness ==
    /\ exit = "cancel"
    /\ gameState.move = EmptyMove
    /\ ClickedSquare(instruction) \in QueensOf(gameState.board, gameState.activePlayer)

\* ----------------------------------------------------------------------- C6
\* The squares of the player's pieces on its back-most occupied row: the
\* lowest row holding a blue piece, the highest row holding a red piece.
IdleSquares(board, player) ==
    {tile \in SquaresOf(board, player) :
        \A other \in SquaresOf(board, player) :
            IF player = "blue"
            THEN getRow(tile) <= getRow(other)
            ELSE getRow(tile) >= getRow(other)}

\* C6: while the active player has no queen and the game is not finished, a
\* click is accepted only on one of that player's idle pieces; the accepted
\* click makes exactly that piece a queen of the active player and changes no
\* other square, nor the active player; any other click returns undefined and
\* changes nothing, so no source or destination is selected meanwhile.
C6_QueenReselection ==
    [][(/\ gameState.winner = NoPlayer
        /\ QueensOf(gameState.board, gameState.activePlayer) = {}
        /\ ClickStep)
        => IF instruction' # NoInstruction
           THEN /\ exit' = "newQueen"
                /\ ClickedSquare(instruction') \in
                        IdleSquares(gameState.board, gameState.activePlayer)
                /\ \A tile \in TileSet :
                        getPiece(gameState'.board, tile) =
                            IF tile = ClickedSquare(instruction')
                            THEN Piece(gameState.activePlayer, "queen")
                            ELSE getPiece(gameState.board, tile)
                /\ gameState'.activePlayer = gameState.activePlayer
                /\ gameState'.move = EmptyMove
           ELSE /\ exit' \in {"invalidTile", "invalidQueen"}
                /\ gameState' = gameState]_vars

\* A player without a queen, holding pieces on more than one row, has crowned
\* an idle piece.
C6_Witness ==
    /\ exit = "newQueen"
    /\ QueensOf(gameState.board, gameState.activePlayer) = {ClickedSquare(instruction)}
    /\ \E tile \in SquaresOf(gameState.board, gameState.activePlayer) :
            getRow(tile) # getRow(ClickedSquare(instruction))

\* ----------------------------------------------------------------------- C7
\* The rows on which the player has a piece.
RowsOf(board, player) == {getRow(tile) : tile \in SquaresOf(board, player)}

\* C7: on every board, the idle pieces of blue are exactly the blue pieces on
\* the lowest row holding a blue piece, and the idle pieces of red exactly the
\* red pieces on the highest row holding a red piece.
C7_IdlePiecesOnBackmostRow ==
    \A player \in Player :
        LET idle == getIdlePieceTiles(gameState.board, player)
        IN  {idle[i] : i \in 1..Len(idle)} = IdleSquares(gameState.board, player)

\* Blue has pieces on rows 2 and 3 only, two of them on row 2, and has crowned
\* one of the two; both pieces of row 2, and none of row 3, are idle.
C7_Witness ==
    /\ exit = "newQueen"
    /\ gameState.activePlayer = "blue"
    /\ RowsOf(gameState.board, "blue") = {2, 3}
    /\ getRow(ClickedSquare(instruction)) = 2
    /\ getIdlePieceTiles(gameState.board, "blue") = << <<2, 0>>, <<2, 2>> >>

\* ----------------------------------------------------------------------- C8
\* C8: in every reachable state each player has at most one queen on the board.
C8_AtMostOneQueen ==
    \A player \in Player : Cardinality(QueensOf(gameState.board, player)) <= 1

\* A player that had lost its queen has crowned a new one, while the other
\* player still has its own.
C8_Witness ==
    /\ exit = "newQueen"
    /\ \A player \in Player : Cardinality(QueensOf(gameState.board, player)) = 1

\* ----------------------------------------------------------------------- C9
\* The paths the path finder records for the piece on a square.
RecordedPaths(board, tile) == setPathsDFS(board, tile, tile, getPiece(board, tile), <<>>)

\* The squares of the player whose piece has a recorded path of length > 2.
CapturingSquares(board, player) ==
    {tile \in SquaresOf(board, player) :
        \E i \in 1..Len(RecordedPaths(board, tile)) :
            Len(RecordedPaths(board, tile)[i]) > 2}

\* C9: in the forced-capture variant, when some piece of the active player
\* has a recorded path of length > 2, an accepted source click is on a square
\* whose own piece has such a path, and every destination it offers comes from
\* a recorded path of length > 2 with at least one capture: no plain step is
\* offered.
C9_CapturesAreForced ==
    [][(/\ variant = "bonus"
        /\ exit' = "from"
        /\ CapturingSquares(gameState.board, gameState.activePlayer) # {})
        => /\ ClickedSquare(instruction') \in
                    CapturingSquares(gameState.board, gameState.activePlayer)
           /\ gameState'.move.validDestinations # <<>>
           /\ \A i \in 1..Len(gameState'.move.validDestinations) :
                \E destination \in {gameState'.move.validDestinations[i]} :
                    /\ Len(destination.path) > 2
                    /\ Len(destination.captures) > 0
                    /\ destination.destination = Last(destination.path)
                    /\ Includes(RecordedPaths(gameState.board,
                                              ClickedSquare(instruction')),
                                destination.path)]_vars

\* A capturing piece is selected while another piece of the player, which
\* cannot capture, has a plain step it is not allowed to take.
C9_Witness ==
    /\ variant = "bonus"
    /\ exit = "from"
    /\ gameState.move.from \in CapturingSquares(gameState.board, gameState.activePlayer)
    /\ \E tile \in SquaresOf(gameState.board, gameState.activePlayer) :
            /\ tile \notin CapturingSquares(gameState.board, gameState.activePlayer)
            /\ RecordedPaths(gameState.board, tile) # <<>>

\* ---------------------------------------------------------------------- C10
\* path is recorded and another recorded path continues it.
IsContinued(path, possiblePaths) ==
    \E j \in 1..Len(possiblePaths) :
        /\ Len(possiblePaths[j]) > Len(path)
        /\ SubSeq(possiblePaths[j], 1, Len(path)) = path

\* C10 as stated: in the forced-capture variant the destinations of a
\* capturing piece are only the ends of chains that cannot be continued; the
\* landing square of a chain that a further jump continues is not offered.
C10_OnlyEndsOfLongestChains ==
    (variant = "bonus" /\ gameState.move.from # NoTile)
        => \A i \in 1..Len(gameState.move.validDestinations) :
                Len(gameState.move.validDestinations[i].path) > 2
                    => ~IsContinued(gameState.move.validDestinations[i].path,
                                    gameState.move.possiblePaths)

\* C10, amended: in the forced-capture variant the destinations of a selected
\* capturing piece are the ends of all its recorded paths of length > 2, in
\* the order recorded: every landing square of an offered chain, the
\* intermediate ones included, is offered with the captures made up to it.
C10_EveryLandingOfAChainIsOffered ==
    (/\ variant = "bonus"
     /\ gameState.move.from # NoTile
     /\ \E j \in 1..Len(gameState.move.possiblePaths) :
            Len(gameState.move.possiblePaths[j]) > 2)
        => /\ gameState.move.possiblePaths =
                    RecordedPaths(gameState.board, gameState.move.from)
           /\ \E offered \in {gameState.move.validDestinations} :
                /\ [i \in 1..Len(offered) |-> offered[i].path] =
                        SelectSeq(gameState.move.possiblePaths,
                                  LAMBDA path : Len(path) > 2)
                /\ \A i \in 1..Len(offered) :
                    \A k \in 3..Len(offered[i].path) :
                        k % 2 = 1 =>
                            \E j \in 1..Len(offered) :
                                /\ offered[j].path = SubSeq(offered[i].path, 1, k)
                                /\ offered[j].destination = offered[i].path[k]
                                /\ Len(offered[j].captures) = (k - 1) \div 2

\* The selected piece is offered the landing square after its first capture
\* and also the end of the chain that continues from there.
C10_Witness ==
    /\ variant = "bonus"
    /\ exit = "from"
    /\ \E i, j \in 1..Len(gameState.move.validDestinations) :
            /\ Len(gameState.move.validDestinations[i].path) = 3
            /\ Len(gameState.move.validDestinations[j].path) > 3
            /\ SubSeq(gameState.move.validDestinations[j].path, 1, 3) =
                    gameState.move.validDestinations[i].path

\* ---------------------------------------------------------------------- C11
\* C11: in the strict variant every destination offered for a selected square
\* comes from a recorded path of length 2 or 3, so an accepted move removes at
\* most one piece of the opponent and never chains jumps.
C11_StrictPathsAreShort ==
    [][variant = "base"
        => /\ exit' = "from"
                => \A i \in 1..Len(gameState'.move.validDestinations) :
                        /\ Len(gameState'.move.validDestinations[i].path) \in {2, 3}
                        /\ Len(gameState'.move.validDestinations[i].captures) =
                                Len(gameState'.move.validDestinations[i].path) - 2
                        /\ Includes(RecordedPaths(gameState.board,
                                                  ClickedSquare(instruction')),
                                    gameState'.move.validDestinations[i].path)
           /\ exit' = "to"
                => /\ Cardinality(SquaresOf(gameState.board, Rival(gameState.activePlayer)))
                        - Cardinality(SquaresOf(gameState'.board,
                                                Rival(gameState.activePlayer))) \in {0, 1}
                   /\ Len(instruction'.tileInstructions) \in {1, 2}]_vars

\* In the strict variant a piece is selected that has a recorded chain of two
\* jumps, which is not among its destinations.
C11_Witness ==
    /\ variant = "base"
    /\ exit = "from"
    /\ \E j \in 1..Len(gameState.move.possiblePaths) :
            Len(gameState.move.possiblePaths[j]) > 3
    /\ \E i \in 1..Len(gameState.move.validDestinations) :
            Len(gameState.move.validDestinations[i].path) = 3

\* ---------------------------------------------------------------------- C12
\* The active player is to select a source: no winner, a queen, no source yet.
SourceSelection(g) ==
    /\ g.winner = NoPlayer
    /\ QueensOf(g.board, g.activePlayer) # {}
    /\ g.move.from = NoTile

\* The recorded paths of the piece on a square that have length 2 or 3.
ShortPaths(board, tile) ==
    SelectSeq(RecordedPaths(board, tile), LAMBDA path : Len(path) \in {2, 3})

\* The paths of the destinations of a move, in order.
OfferedPaths(move) ==
    [i \in 1..Len(move.validDestinations) |-> move.validDestinations[i].path]

\* C12: in the strict variant captures are never mandatory: whenever a source
\* is to be selected, a click on any square of the active player whose piece
\* has a recorded path of length 2 or 3 is accepted, whatever captures other
\* pieces have, and it offers one destination for each of these paths, plain
\* steps and single captures alike.
C12_StrictCapturesAreOptional ==
    (variant = "base" /\ SourceSelection(gameState))
        => \A tile \in SquaresOf(gameState.board, gameState.activePlayer) :
                ShortPaths(gameState.board, tile) # <<>>
                    => \E out \in {playGame("base", gameState, tile[1], tile[2])} :
                            /\ out.exit = "from"
                            /\ out.gameState.move.from = tile
                            /\ OfferedPaths(out.gameState.move) =
                                    ShortPaths(gameState.board, tile)

\* In the strict variant a piece is selected that is offered a plain step and
\* a capture, while another piece of the player has no capture and can be
\* selected as well.
C12_Witness ==
    /\ variant = "base"
    /\ exit = "from"
    /\ \E i, j \in 1..Len(gameState.move.validDestinations) :
            /\ Len(gameState.move.validDestinations[i].path) = 2
            /\ Len(gameState.move.validDestinations[j].path) = 3
    /\ \E tile \in SquaresOf(gameState.board, gameState.activePlayer) :
            /\ tile \notin CapturingSquares(gameState.board, gameState.activePlayer)
            /\ isFromValid("base", gameState.board, tile, gameState.activePlayer)

\* ---------------------------------------------------------------------- C13
\* C13: in the forced-capture variant, when a source is to be selected and no
\* piece of the active player has a recorded path longer than 2, a click on
\* any square of the active player whose piece has a recorded path is
\* accepted and offers one destination for every recorded path of the piece.
C13_ForcedWithoutCaptures ==
    (/\ variant = "bonus"
     /\ SourceSelection(gameState)
     /\ CapturingSquares(gameState.board, gameState.activePlayer) = {})
        => \A tile \in SquaresOf(gameState.board, gameState.activePlayer) :
                RecordedPaths(gameState.board, tile) # <<>>
                    => \E out \in {playGame("bonus", gameState, tile[1], tile[2])} :
                            /\ out.exit = "from"
                            /\ out.gameState.move.from = tile
                            /\ OfferedPaths(out.gameState.move) =
                                    RecordedPaths(gameState.board, tile)

\* In the forced-capture variant, no piece of the active player can capture
\* and a piece with two plain steps is selected and offered both.
C13_Witness ==
    /\ variant = "bonus"
    /\ exit = "from"
    /\ CapturingSquares(gameState.board, gameState.activePlayer) = {}
    /\ Len(gameState.move.validDestinations) = 2
    /\ OfferedPaths(gameState.move) = gameState.move.possiblePaths

\* ---------------------------------------------------------------------- C14
\* The first destination of the move on the square.
ChosenDestination(move, tile) ==
    move.validDestinations[CHOOSE i \in 1..Len(move.validDestinations) :
        /\ move.validDestinations[i].destination = tile
        /\ \A j \in 1..(i - 1) : move.validDestinations[j].destination # tile]

\* C14: an accepted destination click empties the squares of the chosen
\* destination's captures and the source square, puts the piece of the
\* source, owner and kind unchanged, on the destination square, and leaves
\* every other square as it was.
C14_MoveChangesOnlyItsSquares ==
    [][exit' = "to"
        => \E chosen \in {ChosenDestination(gameState.move, ClickedSquare(instruction'))} :
            /\ chosen.destination # gameState.move.from
            /\ \A tile \in TileSet :
                getPiece(gameState'.board, tile) =
                    IF tile = chosen.destination
                    THEN getPiece(gameState.board, gameState.move.from)
                    ELSE IF tile = gameState.move.from \/ Includes(chosen.captures, tile)
                         THEN NoPiece
                         ELSE getPiece(gameState.board, tile)
            /\ getPiece(gameState.board, gameState.move.from).owner = gameState.activePlayer
            /\ gameState'.move = EmptyMove]_vars

\* A move has captured two pieces in one chain.
C14_Witness ==
    /\ exit = "to"
    /\ Len(instruction.tileInstructions) = 3
    /\ getPiece(gameState.board, ClickedSquare(instruction)) # NoPiece
    /\ \A i \in 2..3 :
            getPiece(gameState.board,
                     <<instruction.tileInstructions[i].rowToSet,
                       instruction.tileInstructions[i].colToSet>>) = NoPiece

\* ---------------------------------------------------------------------- C15
\* The squares holding a piece.
OccupiedSquares(board) == {tile \in TileSet : getPiece(board, tile) # NoPiece}

\* A path that returns to its source after a cycle of jumps.
IsCyclicReturn(path) == Len(path) > 2 /\ Last(path) = path[1]

\* C15: on every board and for every piece on it, each path the path finder
\* records starts with the square of the piece and ends on a square that is
\* unoccupied on that board, unless it is a cyclic-return path, which ends on
\* the source.
C15_PathsStartAtSourceEndOnEmpty ==
    \A tile \in OccupiedSquares(gameState.board) :
        \A i \in 1..Len(RecordedPaths(gameState.board, tile)) :
            \E path \in {RecordedPaths(gameState.board, tile)[i]} :
                /\ Len(path) >= 2
                /\ path[1] = tile
                /\ \/ getPiece(gameState.board, Last(path)) = NoPiece
                   \/ IsCyclicReturn(path)

\* A queen has been selected that can jump four pawns in a cycle back to its
\* own square, and also has a path ending on an empty square.
C15_Witness ==
    /\ exit = "from"
    /\ isQueen(getPiece(gameState.board, gameState.move.from))
    /\ \E i, j \in 1..Len(gameState.move.possiblePaths) :
            /\ IsCyclicReturn(gameState.move.possiblePaths[i])
            /\ Len(gameState.move.possiblePaths[i]) = 9
            /\ ~IsCyclicReturn(gameState.move.possiblePaths[j])

\* ---------------------------------------------------------------------- C16
\* All the recorded paths of the pieces on a board.
AllRecordedPaths(board) ==
    UNION {{RecordedPaths(board, tile)[i] : i \in 1..Len(RecordedPaths(board, tile))} :
            tile \in OccupiedSquares(board)}

\* C16: no recorded path holds a square twice, except that a cyclic-return
\* path holds its source exactly twice, first and last; so no piece is
\* jumped twice in a path.
C16_NoSquareTwice ==
    \A path \in AllRecordedPaths(gameState.board) :
        \A i, j \in 1..Len(path) :
            (i < j /\ path[i] = path[j]) => (i = 1 /\ j = Len(path) /\ Len(path) > 2)

\* A queen is selected that has a cyclic-return path over four different
\* pawns, the source being its first and last square and no other square
\* occurring twice.
C16_Witness ==
    /\ exit = "from"
    /\ \E k \in 1..Len(gameState.move.possiblePaths) :
        \E path \in {gameState.move.possiblePaths[k]} :
            /\ Len(path) = 9
            /\ path[1] = path[9]
            /\ Cardinality({path[i] : i \in 1..8}) = 8
            /\ Cardinality({path[i] : i \in {2, 4, 6, 8}}
                            \cap OccupiedSquares(gameState.board)) = 4

\* ---------------------------------------------------------------------- C17
\* C17: in every recorded path each jump goes straight on: a square of the
\* path that holds the jumped piece is followed by the square next to it in
\* the direction of the step that led onto it, same row delta and same column
\* delta, one square at a time.
C17_JumpsContinueStraight ==
    \A path \in AllRecordedPaths(gameState.board) :
        \A i \in 2..Len(path) :
            /\ getRow(path[i]) - getRow(path[i - 1]) \in {-1, 1}
            /\ getColumn(path[i]) - getColumn(path[i - 1]) \in {-1, 1}
            /\ (i > 1 /\ i < Len(path) /\ getPiece(gameState.board, path[i]) # NoPiece)
                => /\ getRow(path[i + 1]) - getRow(path[i]) =
                        getRow(path[i]) - getRow(path[i - 1])
                   /\ getColumn(path[i + 1]) - getColumn(path[i]) =
                        getColumn(path[i]) - getColumn(path[i - 1])
            /\ (i > 1 /\ getPiece(gameState.board, path[i]) # NoPiece)
                => i < Len(path) \/ IsCyclicReturn(path)

\* A queen is selected with a chain of two jumps that turns on the landing
\* square between them: each jump is straight, the second has another
\* direction than the first.
C17_Witness ==
    /\ exit = "from"
    /\ isQueen(getPiece(gameState.board, gameState.move.from))
    /\ \E k \in 1..Len(gameState.move.possiblePaths) :
        \E path \in {gameState.move.possiblePaths[k]} :
            /\ Len(path) = 5
            /\ getColumn(path[3]) - getColumn(path[1]) = 2
            /\ getColumn(path[5]) - getColumn(path[3]) = -2

\* ---------------------------------------------------------------------- C18
\* The row deltas of the steps of a path.
RowSteps(path) == {getRow(path[i + 1]) - getRow(path[i]) : i \in 1..(Len(path) - 1)}

\* C18: every step of a recorded path of a pawn, plain or part of a jump,
\* goes one row toward the opponent's edge: up for blue, down for red.
C18_PawnsOnlyAdvance ==
    \A tile \in OccupiedSquares(gameState.board) :
        getPiece(gameState.board, tile).type = "pawn"
            => \A i \in 1..Len(RecordedPaths(gameState.board, tile)) :
                    RowSteps(RecordedPaths(gameState.board, tile)[i]) =
                        {IF getPiece(gameState.board, tile).owner = "blue" THEN 1 ELSE -1}

\* A red pawn is selected with a capture going down, while on the same board
\* a queen has paths with steps up and down.
C18_Witness ==
    /\ exit = "from"
    /\ getPiece(gameState.board, gameState.move.from) = Piece("red", "pawn")
    /\ \E k \in 1..Len(gameState.move.possiblePaths) :
            Len(gameState.move.possiblePaths[k]) = 3
    /\ \E tile \in OccupiedSquares(gameState.board) :
            /\ getPiece(gameState.board, tile).type = "queen"
            /\ UNION {RowSteps(RecordedPaths(gameState.board, tile)[i]) :
                        i \in 1..Len(RecordedPaths(gameState.board, tile))} = {-1, 1}

\* ---------------------------------------------------------------------- C19
\* The piece a square holds when a game starts: blue on the even-parity
\* squares of rows 0 to 2, red on those of rows 5 to 7, the queens on (0, 0)
\* and (7, 7), pawns elsewhere.
OpeningPiece(tile) ==
    IF (getRow(tile) + getColumn(tile)) % 2 # 0 THEN NoPiece
    ELSE IF getRow(tile) \in 0..2
         THEN Piece("blue", IF tile = <<0, 0>> THEN "queen" ELSE "pawn")
         ELSE IF getRow(tile) \in 5..7
              THEN Piece("red", IF tile = <<7, 7>> THEN "queen" ELSE "pawn")
              ELSE NoPiece

OpeningPosition(g) ==
    /\ g.activePlayer = "blue"
    /\ g.winner = NoPlayer
    /\ g.status = "active"
    /\ g.move = EmptyMove
    /\ \A tile \in TileSet : getPiece(g.board, tile) = OpeningPiece(tile)
    /\ \A player \in Player :
            /\ Cardinality(QueensOf(g.board, player)) = 1
            /\ Cardinality(SquaresOf(g.board, player)) = 12

\* C19: the state after restartGame, whatever the state it is called in, is
\* the state of a new game: blue active, no winner, status active, empty
\* move, eleven pawns and a queen per player on their opening squares.
C19_RestartGivesNewGame ==
    [][exit' = "restart"
        => /\ gameState' = Constructed.gameState
           /\ OpeningPosition(gameState')
           /\ OpeningPosition(Constructed.gameState)]_vars

\* The game has been restarted and is in the opening position.
C19_Witness ==
    /\ exit = "restart"
    /\ OpeningPosition(gameState)
    /\ clicks = 0

\* ---------------------------------------------------------------------- C20
\* C20: in every reachable state every piece stands on a square whose row
\* plus column is even.
C20_PiecesOnEvenSquares ==
    \A tile \in OccupiedSquares(gameState.board) :
        (getRow(tile) + getColumn(tile)) % 2 = 0

\* A piece has jumped over another and stands in the middle of the board, on
\* an even square as all the pieces.
C20_Witness ==
    /\ exit = "to"
    /\ Len(instruction.tileInstructions) > 1
    /\ getRow(ClickedSquare(instruction)) \in 3..4
    /\ getPiece(gameState.board, ClickedSquare(instruction)) # NoPiece
    /\ \A tile \in OccupiedSquares(gameState.board) :
            (getRow(tile) + getColumn(tile)) % 2 = 0

\* ---------------------------------------------------------------------- C21
\* C21: when the piece made queen in queen selection stands on the winning
\* row of the player, that click sets the winner to the player and the status
\* to inactive, and the instruction it returns carries that winner; a piece
\* made queen on another row sets no winner.
C21_CrowningOnWinningRowWins ==
    [][exit' = "newQueen"
        => IF getRow(ClickedSquare(instruction')) = WinningRow(gameState.activePlayer)
           THEN /\ gameState'.winner = gameState.activePlayer
                /\ gameState'.status = "inactive"
                /\ instruction'.winner = gameState.activePlayer
                /\ instruction'.playing = gameState.activePlayer
                /\ gameState'.activePlayer = gameState.activePlayer
           ELSE /\ gameState'.winner = NoPlayer
                /\ gameState'.status = "active"
                /\ instruction'.winner = NoPlayer]_vars

\* A pawn standing on the winning row of its player has been made queen and
\* the player has won by that click.
C21_Witness ==
    /\ exit = "newQueen"
    /\ getRow(ClickedSquare(instruction)) = WinningRow(gameState.activePlayer)
    /\ gameState.winner = gameState.activePlayer
    /\ instruction.winner = gameState.activePlayer
    /\ uiState.winner = gameState.activePlayer

\* ---------------------------------------------------------------------- C22
\* C22: once the opponent of the active player has no piece on the board, the
\* active player does not change any more and the opponent stays without
\* pieces; capturing the last piece declares no winner by itself: a winner is
\* set only for the active player with its queen on its winning row.  Only a
\* restart ends this.
C22_AfterElimination ==
    [][ClickStep
        => /\ (/\ gameState.winner = NoPlayer
               /\ SquaresOf(gameState.board, Rival(gameState.activePlayer)) = {})
                => /\ gameState'.activePlayer = gameState.activePlayer
                   /\ SquaresOf(gameState'.board, Rival(gameState.activePlayer)) = {}
                   /\ gameState'.winner # NoPlayer
                        => /\ gameState'.winner = gameState.activePlayer
                           /\ QueenOnWinningRow(gameState'.board, gameState.activePlayer)
           /\ (/\ SquaresOf(gameState.board, Rival(gameState.activePlayer)) # {}
               /\ SquaresOf(gameState'.board, Rival(gameState.activePlayer)) = {})
                => /\ exit' = "to"
                   /\ gameState'.activePlayer = gameState.activePlayer
                   /\ gameState'.winner = NoPlayer
                        <=> ~QueenOnWinningRow(gameState'.board, gameState.activePlayer)]_vars

\* The opponent has no piece left and the active player has made a further
\* move, without capture; it is still its turn and nobody has won.
C22_Witness ==
    /\ exit = "to"
    /\ Len(instruction.tileInstructions) = 1
    /\ SquaresOf(gameState.board, Rival(gameState.activePlayer)) = {}
    /\ instruction.playing = gameState.activePlayer
    /\ gameState.winner = NoPlayer

\* ---------------------------------------------------------------------- C23
\* The squares next to a square in the directions its piece may move: the
\* four diagonals for a queen, the two toward the opponent's edge for a pawn.
AdjacentSquares(tile, piece) ==
    {other \in TileSet :
        /\ getColumn(other) - getColumn(tile) \in {-1, 1}
        /\ getRow(other) - getRow(tile) \in
                IF piece.type = "queen" THEN {-1, 1}
                ELSE IF piece.owner = "blue" THEN {1} ELSE {-1}}

\* A piece none of whose adjacent squares holds an opposing piece.
NoAdjacentEnemy(board, tile) ==
    \A other \in AdjacentSquares(tile, getPiece(board, tile)) :
        getPiece(board, other).owner \in {"none", getPiece(board, tile).owner}

\* C23: for a piece with no opposing piece on an adjacent square in its
\* directions, the recorded paths are exactly the paths of length 2 to its
\* empty adjacent squares, each once and each with an empty capture set; on
\* the board of a new game the blue pawn on (2, 0) has the single path to
\* (3, 1).
C23_PlainStepsOnly ==
    /\ \A tile \in OccupiedSquares(gameState.board) :
            NoAdjacentEnemy(gameState.board, tile)
                => \E paths \in {RecordedPaths(gameState.board, tile)} :
                    /\ {paths[i] : i \in 1..Len(paths)} =
                            {<<tile, other>> :
                                other \in {adjacent \in AdjacentSquares(tile,
                                                getPiece(gameState.board, tile)) :
                                            getPiece(gameState.board, adjacent) = NoPiece}}
                    /\ \A i, j \in 1..Len(paths) : paths[i] = paths[j] => i = j
                    /\ \A i \in 1..Len(paths) :
                            ValidDestination(gameState.board, paths[i],
                                getPiece(gameState.board, tile).owner).captures = <<>>
    /\ RecordedPaths(Board, <<2, 0>>) = << << <<2, 0>>, <<3, 1>> >> >>
    /\ setFrom("bonus", Board, <<2, 0>>, "blue").validDestinations =
            << [destination |-> <<3, 1>>, captures |-> <<>>,
                path |-> << <<2, 0>>, <<3, 1>> >>] >>

\* A queen with no opposing piece next to it, but one two squares away, is
\* selected: its destinations are the plain steps to its empty neighbours.
C23_Witness ==
    /\ exit = "from"
    /\ isQueen(getPiece(gameState.board, gameState.move.from))
    /\ NoAdjacentEnemy(gameState.board, gameState.move.from)
    /\ getPiece(gameState.board, <<4, 4>>).owner = Rival(gameState.activePlayer)
    /\ getPiece(gameState.board, <<3, 3>>) = NoPiece
    /\ Len(gameState.move.validDestinations) >= 2
    /\ \A i \in 1..Len(gameState.move.validDestinations) :
            /\ Len(gameState.move.validDestinations[i].path) = 2
            /\ gameState.move.validDestinations[i].captures = <<>>

\* ---------------------------------------------------------------------- C24
\* C24: the path finder records every stopping point of a chain of jumps:
\* with a recorded path of length 2k + 1, k >= 2, the prefix of length 2j + 1
\* ending on each earlier landing square, 1 <= j < k, is recorded for the same
\* source as well.
C24_EveryStoppingPointRecorded ==
    \A tile \in OccupiedSquares(gameState.board) :
        \E paths \in {RecordedPaths(gameState.board, tile)} :
            \A i \in 1..Len(paths) :
                \A j \in 1..((Len(paths[i]) - 1) \div 2 - 1) :
                    Includes(paths, SubSeq(paths[i], 1, 2 * j + 1))

\* A queen is selected with a recorded chain of three jumps and with the two
\* shorter chains that stop on its first and on its second landing square.
C24_Witness ==
    /\ exit = "from"
    /\ \E k \in 1..Len(gameState.move.possiblePaths) :
        \E path \in {gameState.move.possiblePaths[k]} :
            /\ Len(path) = 7
            /\ Includes(gameState.move.possiblePaths, SubSeq(path, 1, 5))
            /\ Includes(gameState.move.possiblePaths, SubSeq(path, 1, 3))


\* ---------------------------------------------------------------------- C25
\* The squares of a path that hold a piece of the rival of a player.
RivalSquares(board, path, player) ==
    {path[p] : p \in {q \in 1..Len(path) : getPiece(board, path[q]).owner = Rival(player)}}

\* The squares a path jumps over: every second square, from the one after the
\* source (indices 1, 3, 5, ... counting the source as 0).
JumpedSquares(path) == [j \in 1..((Len(path) - 1) \div 2) |-> path[2 * j]]

\* C25: on every board and for every piece, each recorded path has length 2
\* or an odd length of at least 3; in a path of length at least 3 the squares
\* at the odd indices 1, 3, 5, ... (the source having index 0) are exactly the
\* squares of the path that hold a piece of the opponent, the captures of the
\* destination built from the path are these squares in order, and a path of
\* length 2k+1 captures k different pieces. A path of length 2 captures none.
C25_CapturesAreTheJumpedSquares ==
    \A tile \in OccupiedSquares(gameState.board) :
        \E paths \in {RecordedPaths(gameState.board, tile)},
           player \in {getPiece(gameState.board, tile).owner} :
            \A i \in 1..Len(paths) :
                \E path \in {paths[i]} :
                    \E captures \in {ValidDestination(gameState.board, path, player).captures} :
                        /\ Len(path) = 2 \/ (Len(path) >= 3 /\ Len(path) % 2 = 1)
                        /\ Len(path) = 2 => captures = <<>>
                        /\ Len(path) >= 3 =>
                            /\ \A p \in 1..Len(path) :
                                    (getPiece(gameState.board, path[p]).owner = Rival(player))
                                        <=> (p % 2 = 0)
                            /\ captures = JumpedSquares(path)
                            /\ RivalSquares(gameState.board, path, player)
                                    = {captures[j] : j \in 1..Len(captures)}
                            /\ Cardinality({captures[j] : j \in 1..Len(captures)})
                                    = (Len(path) - 1) \div 2

\* A piece has been selected and is offered a destination two jumps away,
\* whose path has length 5 and whose captures are the second and the fourth
\* square of the path, two different squares held by the opponent.
C25_Witness ==
    /\ exit = "from"
    /\ \E k \in 1..Len(gameState.move.validDestinations) :
        \E vd \in {gameState.move.validDestinations[k]} :
            /\ Len(vd.path) = 5
            /\ vd.captures = <<vd.path[2], vd.path[4]>>
            /\ vd.path[2] # vd.path[4]
            /\ \A j \in 1..2 :
                    getPiece(gameState.board, vd.captures[j]).owner
                        = Rival(gameState.activePlayer)

\* ---------------------------------------------------------------------- C26
\* C26: source selection never changes the board. A click that is evaluated
\* as a source, accepted or rejected, in either variant, leaves the piece of
\* every square, the active player, the winner and the status as they were;
\* a rejected one leaves the move empty, and an accepted one changes nothing
\* but the move: from is the clicked square, to stays unset, the paths are
\* the recorded paths of the piece on the unchanged board and the
\* destinations are those the variant builds from them.
C26_SelectionLeavesTheBoard ==
    [][exit' \in {"from", "invalidFrom"}
        => /\ Position(gameState') = Position(gameState)
           /\ \A tile \in TileSet :
                getPiece(gameState'.board, tile) = getPiece(gameState.board, tile)
           /\ exit' = "invalidFrom" => gameState'.move = EmptyMove
           /\ exit' = "from" =>
                /\ gameState' = [gameState EXCEPT !.move = gameState'.move]
                /\ gameState'.move.from = ClickedSquare(instruction')
                /\ gameState'.move.to = NoTile
                /\ gameState'.move.possiblePaths
                        = RecordedPaths(gameState.board, gameState'.move.from)
                /\ gameState'.move.validDestinations
                        = setValidDestinations(variant, gameState.board,
                                               gameState'.move.possiblePaths,
                                               gameState.activePlayer)]_vars

\* In the forced variant a piece that can capture has been selected: it still
\* stands on its square, and so does the piece it can capture.
C26_Witness ==
    /\ variant = "bonus"
    /\ exit = "from"
    /\ clicks > 0
    /\ getPiece(gameState.board, gameState.move.from).owner = gameState.activePlayer
    /\ \E k \in 1..Len(gameState.move.validDestinations) :
        \E vd \in {gameState.move.validDestinations[k]} :
            /\ Len(vd.captures) = 1
            /\ getPiece(gameState.board, vd.captures[1]).owner
                    = Rival(gameState.activePlayer)
            /\ getPiece(gameState.board, vd.destination) = NoPiece

\* ---------------------------------------------------------------------- C27
\* The squares a path was on before its last one.
SquaresBeforeLast(path) == {path[p] : p \in 1..(Len(path) - 1)}

\* C27: the path search ends on every board, for every piece on it, pawn or
\* queen, jump cycles included, with a finite sequence of paths: a path never
\* comes back to a square while it is built (only its last square may be one
\* it was on, the source), so a path is never longer than the number of
\* squares of the board plus one, and a path with jumps has no more jumps
\* than the opponent has pieces.
C27_SearchIsBounded ==
    \A tile \in OccupiedSquares(gameState.board) :
        \E paths \in {RecordedPaths(gameState.board, tile)} :
            /\ Len(paths) \in Nat
            /\ \A i \in 1..Len(paths) :
                \E path \in {paths[i]} :
                    /\ Cardinality(SquaresBeforeLast(path)) = Len(path) - 1
                    /\ Len(path) <= Cardinality(TileSet) + 1
                    /\ Len(path) > 2 =>
                            Len(path) <= 1 + 2 * Cardinality(SquaresOf(gameState.board,
                                            Rival(getPiece(gameState.board, tile).owner)))

\* A queen inside a ring of four pawns has been selected: the search has ended
\* and recorded the two paths around the ring, one each way, both back on the
\* source after four jumps.
C27_Witness ==
    /\ exit = "from"
    /\ isQueen(getPiece(gameState.board, gameState.move.from))
    /\ \E i, j \in 1..Len(gameState.move.possiblePaths) :
            /\ i # j
            /\ Len(gameState.move.possiblePaths[i]) = 9
            /\ Len(gameState.move.possiblePaths[j]) = 9
            /\ Last(gameState.move.possiblePaths[i]) = gameState.move.from
            /\ Last(gameState.move.possiblePaths[j]) = gameState.move.from
            /\ gameState.move.possiblePaths[i][2] # gameState.move.possiblePaths[j][2]

\* ---------------------------------------------------------------------- C28
\* C28: in every reachable state there is no winner exactly when the status
\* is active; while there is no winner, no blue queen stands on row 7 and no
\* red queen on row 0; when a player is the winner, the status is inactive
\* and a queen of that player stands on the player's winning row.
C28_WinnerStatusAndQueens ==
    /\ gameState.winner = NoPlayer <=> gameState.status = "active"
    /\ gameState.status \in {"active", "inactive"}
    /\ gameState.winner = NoPlayer =>
            \A player \in Player : ~QueenOnWinningRow(gameState.board, player)
    /\ gameState.winner # NoPlayer =>
            /\ gameState.winner \in Player
            /\ QueenOnWinningRow(gameState.board, gameState.winner)

\* A game has been won by a click: the status is inactive, the queen of the
\* winner stands on its winning row and the other player has no queen on its
\* own winning row.
C28_Witness ==
    /\ clicks > 0
    /\ exit \in {"to", "newQueen"}
    /\ gameState.winner \in Player
    /\ gameState.status = "inactive"
    /\ QueenOnWinningRow(gameState.board, gameState.winner)
    /\ ~QueenOnWinningRow(gameState.board, Rival(gameState.winner))

\* ---------------------------------------------------------------------- C29
\* A move whose destinations include one on the source itself, the end of a
\* cyclic-return path.
HasCyclicCandidate(move) ==
    /\ move.from # NoTile
    /\ \E k \in 1..Len(move.validDestinations) :
            move.validDestinations[k].destination = move.from

C30_DestinationsAreUnique ==
    \A i, j \in 1..Len(gameState.move.validDestinations) :
        gameState.move.validDestinations[i].destination
            = gameState.move.validDestinations[j].destination
        => i = j

\* The squares that held a piece before a step and hold none after it.
EmptiedSquares == OccupiedSquares(gameState.board) \ OccupiedSquares(gameState'.board)

\* C30, as the code behaves when candidates share a destination: the pieces
\* taken off the board are the captures of the first candidate, in the order
\* of the destinations, whose destination is the clicked square; the captures
\* of a later candidate on the same square are never applied.
C30_FirstCandidateIsApplied ==
    [][exit' = "to"
        => \E first \in {k \in 1..Len(gameState.move.validDestinations) :
                            /\ gameState.move.validDestinations[k].destination
                                    = ClickedSquare(instruction')
                            /\ \A l \in 1..(k - 1) :
                                    gameState.move.validDestinations[l].destination
                                        # ClickedSquare(instruction')} :
                \E vd \in {gameState.move.validDestinations[first]} :
                    /\ EmptiedSquares
                        = {gameState.move.from} \cup {vd.captures[c] : c \in 1..Len(vd.captures)}
                    /\ Len(instruction'.tileInstructions) = 1 + Len(vd.captures)]_vars

\* A queen inside a ring of four pawns has been selected in the forced
\* variant: two of its candidates end on the same square, two jumps away
\* either way round the ring, and capture different pairs of pawns.
C30_Witness ==
    /\ exit = "from"
    /\ variant = "bonus"
    /\ \E i, j \in 1..Len(gameState.move.validDestinations) :
        \E a \in {gameState.move.validDestinations[i]},
           b \in {gameState.move.validDestinations[j]} :
            /\ i < j
            /\ a.destination = b.destination
            /\ Len(a.captures) = 2
            /\ Len(b.captures) = 2
            /\ {a.captures[c] : c \in 1..2} \cap {b.captures[c] : c \in 1..2} = {}

\* ---------------------------------------------------------------------- C31
\* C31: in every reachable state the active player has a piece on the board;
\* hence, while the game is not won and the active player has no queen, its
\* idle pieces are not empty, and a click on any of them is accepted and
\* gives the player a queen: queen selection can always be completed.
C31_ActivePlayerHasAPiece ==
    /\ SquaresOf(gameState.board, gameState.activePlayer) # {}
    /\ (gameState.winner = NoPlayer
            /\ QueensOf(gameState.board, gameState.activePlayer) = {})
        => /\ IdleSquares(gameState.board, gameState.activePlayer) # {}
           /\ Len(getIdlePieceTiles(gameState.board, gameState.activePlayer)) > 0
           /\ \A tile \in IdleSquares(gameState.board, gameState.activePlayer) :
                \E played \in {playGame(variant, gameState, getRow(tile), getColumn(tile))} :
                    /\ played.exit = "newQueen"
                    /\ QueensOf(played.gameState.board, gameState.activePlayer) = {tile}

\* A capture has just taken the queen of the player whose turn it now is:
\* that player has no queen, has pieces, and some of them are idle.
C31_Witness ==
    /\ exit = "to"
    /\ clicks > 0
    /\ Len(instruction.tileInstructions) > 1
    /\ gameState.winner = NoPlayer
    /\ QueensOf(gameState.board, gameState.activePlayer) = {}
    /\ Cardinality(SquaresOf(gameState.board, gameState.activePlayer)) > 1
    /\ IdleSquares(gameState.board, gameState.activePlayer) # {}

\* ---------------------------------------------------------------------- C32
\* The label the view shows on a square: board[column][row] of the store.
ViewLabel(ui, tile) == ui.board[getColumn(tile) + 1][getRow(tile) + 1]

\* The squares on which the view and the board of the game differ.
ViewDiffers(ui, board) ==
    {tile \in TileSet : ViewLabel(ui, tile) # LabelOf(getPiece(board, tile))}

\* C32: the view stays in step with the game. After every click and restart,
\* the tile updates of the returned instructions having been applied to the
\* view in order: while no source is selected the view shows on every square
\* the piece the game has there; while a source is selected they differ on
\* the source square only, which the view shows empty; and the playing field
\* of a returned instruction, like the turn of the view, is the active player
\* of the game after the click.
C32_ViewFollowsTheGame ==
    /\ gameState.move.from = NoTile => ViewDiffers(uiState, gameState.board) = {}
    /\ gameState.move.from # NoTile =>
            /\ ViewDiffers(uiState, gameState.board) = {gameState.move.from}
            /\ ViewLabel(uiState, gameState.move.from) = "none"
    /\ instruction # NoInstruction => instruction.playing = gameState.activePlayer
    /\ uiState.turn = gameState.activePlayer

\* After a capture in play the next player has selected a piece: the view
\* shows the source empty, the game still has the piece there, the square of
\* the captured piece is empty in both and all other squares agree.
C32_Witness ==
    /\ exit = "from"
    /\ clicks >= 3
    /\ ViewLabel(uiState, gameState.move.from) = "none"
    /\ getPiece(gameState.board, gameState.move.from).owner = gameState.activePlayer
    /\ ViewDiffers(uiState, gameState.board) = {gameState.move.from}
    /\ Cardinality(OccupiedSquares(gameState.board)) < 24
    /\ uiState.turn = gameState.activePlayer

\* ---------------------------------------------------------------------- C33
\* C33: between clicks, while a source is selected its square holds a piece
\* of the active player, the active player has a queen, there is no winner
\* and the move has at least one destination, all of them built from the
\* recorded paths of that piece; while no source is selected the move has no
\* paths and no destinations; and to is never set. So the paths of a move
\* are never those of an empty square or of a piece of the opponent.
C33_MoveBetweenClicks ==
    /\ gameState.move.to = NoTile
    /\ gameState.move.from = NoTile =>
            /\ gameState.move.possiblePaths = <<>>
            /\ gameState.move.validDestinations = <<>>
    /\ gameState.move.from # NoTile =>
            /\ gameState.move.from \in SquaresOf(gameState.board, gameState.activePlayer)
            /\ QueensOf(gameState.board, gameState.activePlayer) # {}
            /\ gameState.winner = NoPlayer
            /\ Len(gameState.move.validDestinations) > 0
            /\ gameState.move.possiblePaths
                    = RecordedPaths(gameState.board, gameState.move.from)
            /\ \A k \in 1..Len(gameState.move.validDestinations) :
                    Includes(gameState.move.possiblePaths,
                             gameState.move.validDestinations[k].path)

\* In the strict variant a pawn of the active player is selected while the
\* queen of the player stands elsewhere: the move has paths and destinations
\* and no to.
C33_Witness ==
    /\ variant = "base"
    /\ exit = "from"
    /\ gameState.move.to = NoTile
    /\ getPiece(gameState.board, gameState.move.from)
            = Piece(gameState.activePlayer, "pawn")
    /\ QueensOf(gameState.board, gameState.activePlayer) # {}
    /\ Len(gameState.move.validDestinations) > 0
    /\ Len(gameState.move.possiblePaths) >= Len(gameState.move.validDestinations)
    /\ gameState.winner = NoPlayer

\* ---------------------------------------------------------------------- C34
\* The squares of the active player on which a click is accepted as a source.
SelectableSquares(game, g) ==
    {tile \in SquaresOf(g.board, g.activePlayer) :
        playGame(game, g, getRow(tile), getColumn(tile)).exit = "from"}

\* The squares of the active player whose piece has a recorded path.
MovableSquares(g) ==
    {tile \in SquaresOf(g.board, g.activePlayer) : RecordedPaths(g.board, tile) # <<>>}

\* C34: the game never gets stuck: in every reachable state without a winner
\* in which the active player has a queen and no source is selected, a click
\* on at least one square of the active player is accepted.
C34_NeverStuck ==
    SourceSelection(gameState) => SelectableSquares(variant, gameState) # {}

\* C34, as the code behaves: while a source is to be selected, some square is
\* selectable exactly when some piece of the active player has a recorded
\* path; when none has, playGame ignores a click on every square of the
\* board and changes nothing, so that only a restart goes on.
C34_StuckWhenNoPieceCanMove ==
    SourceSelection(gameState) =>
        /\ SelectableSquares(variant, gameState) # {} <=> MovableSquares(gameState) # {}
        /\ MovableSquares(gameState) = {} =>
                \A tile \in TileSet :
                    \E played \in {playGame(variant, gameState, getRow(tile), getColumn(tile))} :
                        /\ played.exit = "invalidFrom"
                        /\ played.instruction = NoInstruction
                        /\ played.gameState = gameState

\* Blue is to move and has its queen, there is no winner and no source is
\* selected, but no piece of blue has a path: its queen stands in the corner
\* behind two red pawns in line. A click on it has just been ignored.
C34_Witness ==
    /\ exit = "invalidFrom"
    /\ SourceSelection(gameState)
    /\ gameState.activePlayer = "blue"
    /\ SquaresOf(gameState.board, "blue") = {<<0, 0>>}
    /\ getPiece(gameState.board, <<1, 1>>).owner = "red"
    /\ getPiece(gameState.board, <<2, 2>>).owner = "red"
    /\ MovableSquares(gameState) = {}
    /\ SelectableSquares(variant, gameState) = {}
====
